---- MODULE Spec2Model ----
(***************************************************************************)
(* Model of the framed request/acknowledge protocol engine of the Comm     *)
(* library (comm.c, comm_protocol.c, comm_manager.c, comm_internal.h).     *)
(* Strings are sequences of byte values; a char array is the sequence of   *)
(* its bytes up to the last non-zero one (the arrays are zero-initialised  *)
(* by memset), and a C string read from it stops at the first zero byte.   *)
(* 32-bit unsigned values (HAL_GetTick, last_send_time, frame_timeout) are *)
(* pairs <<hi, lo>> of 16-bit halves, with the arithmetic taken mod 2^32.  *)
(***************************************************************************)
EXTENDS Integers, Sequences, FiniteSets, TLC

(* ---------------- comm_internal.h: configuration ---------------- *)
COMM_MAX_INSTANCES == 8
COMM_TX_BUFFER_SIZE == 128
COMM_MAX_CALLBACKS == 8
COMM_FRAME_START == 123
COMM_FRAME_END == 125
COMM_CMD_DATA_SEPARATOR == 58
COMM_FIELD_SEPARATOR == 35
COMM_MAX_CMD_LENGTH == 16
COMM_MAX_DATA_LENGTH == 64
COMM_FRAME_TIMEOUT_MS == 100
COMM_CMD_ACK == <<65, 67, 75>>
COMM_CMD_NAK == <<78, 65, 75>>
COMM_STATE_IDLE == "IDLE"
COMM_STATE_WAIT_ACK == "WAIT_ACK"
COMM_STATE_SENDING == "SENDING"
COMM_STATE_RETRY == "RETRY"
COMM_STATE_RECEIVING == "RECEIVING"
COMM_STATE_PROCESSING == "PROCESSING"
COMM_STATE_ERROR == "ERROR"
FRAME_STATE_IDLE == "P_IDLE"
FRAME_STATE_CMD == "P_CMD"
FRAME_STATE_DATA == "P_DATA"
FRAME_STATE_SEQ == "P_SEQ"
FRAME_STATE_CRC == "P_CRC"
NULL == "NULL"
\* comm_add_uart: comm_create_uart_instance(huart, 1000, 3)
ADD_UART_TIMEOUT_MS == 1000
ADD_UART_MAX_RETRY == 3
\* reason string handed to the failure callback by comm_handle_timeout
FAIL_REASON == "retry timeout failed"

(* ---------------- evaluation ---------------- *)
\* F applied to the value of x: x is evaluated once, where a LET would
\* evaluate it again at every place the name is used
Bind(x, F(_)) == CHOOSE r \in {F(v) : v \in {x}} : TRUE

(* ---------------- bytes, char arrays, C strings ---------------- *)
RECURSIVE XorBits(_, _, _)
XorBits(a, b, n) ==
    IF n = 0 THEN 0
    ELSE (((a % 2) + (b % 2)) % 2) + 2 * XorBits(a \div 2, b \div 2, n - 1)

Xor8(a, b) == XorBits(a, b, 8)

StripZeros(arr) ==
    Bind(arr, LAMBDA a :
      LET nz == {k \in 1..Len(a) : a[k] # 0}
      IN  IF nz = {} THEN <<>>
          ELSE SubSeq(a, 1, CHOOSE k \in nz : \A j \in nz : j <= k))

\* arr[i] = b on a zero-initialised char array (i counts from 0)
WriteAt(arr, i, b) ==
    Bind(arr, LAMBDA a :
      StripZeros([k \in 1..(IF Len(a) > i + 1 THEN Len(a) ELSE i + 1) |->
                    IF k = i + 1 THEN b
                    ELSE IF k <= Len(a) THEN a[k] ELSE 0]))

\* the C string held by a char array: the bytes before the first zero
CStr(arr) ==
    Bind(arr, LAMBDA a :
      LET z == {k \in 1..Len(a) : a[k] = 0}
      IN  IF z = {} THEN a
          ELSE SubSeq(a, 1, (CHOOSE k \in z : \A j \in z : k <= j) - 1))

strlen(s) == Len(CStr(s))

\* strncpy(dst, src, n); dst[n] = 0 into a zeroed or longer-string-free array
StrNCopy(s, n) ==
    Bind(CStr(s), LAMBDA str : IF Len(str) <= n THEN str ELSE SubSeq(str, 1, n))

HexDigit(n) == IF n < 10 THEN 48 + n ELSE 55 + n

\* printf "%02X" of a uint8_t
Fmt02X(v) == <<HexDigit(v \div 16), HexDigit(v % 16)>>

IsSpace(c) == c \in {32, 9, 10, 11, 12, 13}

\* value of a character as a base-16 digit, 99 when it is none
DigitVal(c) ==
    IF c >= 48 /\ c <= 57 THEN c - 48
    ELSE IF c >= 65 /\ c <= 70 THEN c - 55
    ELSE IF c >= 97 /\ c <= 102 THEN c - 87
    ELSE 99

\* accumulation loop of strtol: <<value, overflowed>>
RECURSIVE StrtolAcc(_, _, _, _)
StrtolAcc(s, k, acc, sat) ==
    IF k > Len(s) \/ DigitVal(s[k]) >= 16 THEN <<acc, sat>>
    ELSE IF sat \/ acc > ((2147483647 - DigitVal(s[k])) \div 16)
         THEN StrtolAcc(s, k + 1, acc, TRUE)
         ELSE Bind(acc * 16 + DigitVal(s[k]), LAMBDA v : StrtolAcc(s, k + 1, v, FALSE))

RECURSIVE SkipSpace(_, _)
SkipSpace(s, k) == IF k <= Len(s) /\ IsSpace(s[k]) THEN SkipSpace(s, k + 1) ELSE k

\* (uint8_t)strtol(str, NULL, 16) with a 32-bit long
strtol16_u8(str) ==
    Bind(CStr(str), LAMBDA s :
      LET k0  == SkipSpace(s, 1)
          neg == k0 <= Len(s) /\ s[k0] = 45
          k1  == IF k0 <= Len(s) /\ s[k0] \in {43, 45} THEN k0 + 1 ELSE k0
          k2  == IF k1 + 1 <= Len(s) /\ s[k1] = 48 /\ s[k1 + 1] \in {120, 88}
                 THEN k1 + 2 ELSE k1
      IN  Bind(StrtolAcc(s, k2, 0, FALSE), LAMBDA r :
            IF r[2] THEN (IF neg THEN 0 ELSE 255)
            ELSE IF neg THEN (256 - (r[1] % 256)) % 256
            ELSE r[1] % 256))

(* ---------------- 32-bit unsigned arithmetic ---------------- *)
U32(n) == <<n \div 65536, n % 65536>>

U32Add(a, b) ==
    LET lo == a[2] + b[2]
    IN  <<(a[1] + b[1] + (lo \div 65536)) % 65536, lo % 65536>>

U32Sub(a, b) ==
    LET lo == a[2] - b[2] + 65536
    IN  <<(a[1] - b[1] - (1 - (lo \div 65536)) + 65536) % 65536, lo % 65536>>

U32Geq(a, b) == a[1] > b[1] \/ (a[1] = b[1] /\ a[2] >= b[2])

(* ---------------- comm_protocol.c: CRC ---------------- *)
crc8_table == <<
    0, 7, 14, 9, 28, 27, 18, 21, 56, 63, 54, 49, 36, 35, 42, 45,
    112, 119, 126, 121, 108, 107, 98, 101, 72, 79, 70, 65, 84, 83, 90, 93,
    224, 231, 238, 233, 252, 251, 242, 245, 216, 223, 214, 209, 196, 195, 202, 205,
    144, 151, 158, 153, 140, 139, 130, 133, 168, 175, 166, 161, 180, 179, 186, 189,
    199, 192, 201, 206, 219, 220, 213, 210, 255, 248, 241, 246, 227, 228, 237, 234,
    183, 176, 185, 190, 171, 172, 165, 162, 143, 136, 129, 134, 147, 148, 157, 154,
    39, 32, 41, 46, 59, 60, 53, 50, 31, 24, 17, 22, 3, 4, 13, 10,
    87, 80, 89, 94, 75, 76, 69, 66, 111, 104, 97, 102, 115, 116, 125, 122,
    137, 142, 135, 128, 149, 146, 155, 156, 177, 182, 191, 184, 173, 170, 163, 164,
    249, 254, 247, 240, 229, 226, 235, 236, 193, 198, 207, 200, 221, 218, 211, 212,
    105, 110, 103, 96, 117, 114, 123, 124, 81, 86, 95, 88, 77, 74, 67, 68,
    25, 30, 23, 16, 5, 2, 11, 12, 33, 38, 47, 40, 61, 58, 51, 52,
    78, 73, 64, 71, 82, 85, 92, 91, 118, 113, 120, 127, 106, 109, 100, 99,
    62, 57, 48, 55, 34, 37, 44, 43, 6, 1, 8, 15, 26, 29, 20, 19,
    174, 169, 160, 167, 178, 181, 188, 187, 150, 145, 152, 159, 138, 141, 132, 131,
    222, 217, 208, 215, 194, 197, 204, 203, 230, 225, 232, 239, 250, 253, 244, 243 >>

\* the iterations lo..hi of the table-driven loop, entered with crc (the range
\* is halved so that the evaluation does not nest once per byte)
RECURSIVE Crc8Loop(_, _, _, _)
Crc8Loop(data, lo, hi, crc) ==
    IF lo > hi THEN crc
    ELSE IF lo = hi THEN crc8_table[Xor8(crc, data[lo]) + 1]
    ELSE Bind(Crc8Loop(data, lo, (lo + hi) \div 2, crc),
              LAMBDA half : Crc8Loop(data, ((lo + hi) \div 2) + 1, hi, half))

\* variant: the table-driven loop starts from 0xFF
crc8_from_ff(data) ==
    Bind(data, LAMBDA d : IF Len(d) = 0 THEN 0 ELSE Crc8Loop(d, 1, Len(d), 255))

comm_crc8_calculate(data) ==
    Bind(data, LAMBDA d : IF Len(d) = 0 THEN 0 ELSE Crc8Loop(d, 1, Len(d), 0))

\* the branch compiled without COMM_ENABLE_FAST_CRC: the inner loop of 8 shifts
RECURSIVE Crc8Shift(_, _)
Crc8Shift(crc, j) ==
    IF j = 8 THEN crc
    ELSE Crc8Shift(IF crc >= 128 THEN Xor8((crc * 2) % 256, 7) ELSE (crc * 2) % 256, j + 1)

RECURSIVE Crc8BitLoop(_, _, _)
Crc8BitLoop(data, i, crc) ==
    IF i > Len(data) THEN crc
    ELSE Bind(Crc8Shift(Xor8(crc, data[i]), 0), LAMBDA c : Crc8BitLoop(data, i + 1, c))

comm_crc8_calculate_bitwise(data) ==
    Bind(data, LAMBDA d : IF Len(d) = 0 THEN 0 ELSE Crc8BitLoop(d, 1, 0))

\* variant: the received CRC is not compared
crc_unchecked(data, expected_crc) == expected_crc \in 0..255

comm_crc8_verify(data, expected_crc) == comm_crc8_calculate(data) = expected_crc

(* ---------------- comm_internal.h: data structures ---------------- *)
\* comm_frame_t after memset(&frame, 0, sizeof(comm_frame_t))
ZeroFrame == [cmd |-> <<>>, data |-> <<>>, sequence |-> 0, crc |-> 0, is_valid |-> FALSE]

\* comm_handler_t after memset
ZeroHandler == [cmd |-> <<>>, callback |-> NULL]

(* ---------------- comm_manager.c: instances ---------------- *)
comm_instance_init(huart, timeout_ms, max_retry) ==
    [huart |-> huart,
     state |-> COMM_STATE_IDLE,
     parse_state |-> FRAME_STATE_IDLE,
     tx_sequence |-> 0,
     rx_sequence |-> 0,
     expected_ack_seq |-> 0,
     rx_buffer |-> <<>>,
     tx_buffer |-> <<>>,
     rx_index |-> 0,
     tx_length |-> 0,
     rx_byte |-> 0,
     new_frame_available |-> FALSE,
     pending_frame |-> ZeroFrame,
     frame_timeout |-> U32(0),
     handlers |-> [i \in 1..COMM_MAX_CALLBACKS |-> ZeroHandler],
     timeout_ms |-> U32(timeout_ms),
     max_retry |-> max_retry,
     retry_count |-> 0,
     last_send_time |-> U32(0),
     current_cmd |-> <<>>,
     current_data |-> <<>>,
     current_sequence |-> 0,
     debug_enabled |-> FALSE,
     fail_callback |-> NULL,
     state_change_callback |-> NULL]

\* variant: every bound instance counts as ready
readiness_ignored(inst) == inst.huart # NULL

comm_instance_is_ready(inst) == inst.state = COMM_STATE_IDLE

\* variant: a handle without a channel falls back to the first channel
find_with_fallback(insts, huart) ==
    IF \E i \in 1..Len(insts) : insts[i].huart = huart
    THEN CHOOSE i \in 1..Len(insts) : insts[i].huart = huart
    ELSE IF insts = <<>> THEN 0 ELSE 1

\* index into the instance table (from 1), 0 when the handle is not registered
comm_find_instance(insts, huart) ==
    IF huart = NULL \/ ~(\E i \in 1..Len(insts) : insts[i].huart = huart) THEN 0
    ELSE CHOOSE i \in 1..Len(insts) :
           /\ insts[i].huart = huart
           /\ \A j \in 1..(i - 1) : insts[j].huart # huart

\* variant: a slot is taken without looking at the capacity
create_beyond_capacity(insts, huart) ==
    IF huart = NULL \/ comm_find_instance(insts, huart) # 0 THEN insts
    ELSE Append(insts, comm_instance_init(huart, 0, 0))

\* comm_create_instance: the table after taking a slot, or the table as it was
comm_create_instance(insts, huart) ==
    IF huart = NULL \/ comm_find_instance(insts, huart) # 0 THEN insts
    ELSE IF Len(insts) >= COMM_MAX_INSTANCES THEN insts
    ELSE Append(insts, comm_instance_init(huart, 0, 0))

\* <<table, index of the instance or 0>>
comm_create_uart_instance(insts, huart, timeout_ms, max_retry) ==
    IF huart = NULL THEN <<insts, 0>>
    ELSE Bind(comm_create_instance(insts, huart), LAMBDA t :
           Bind(comm_find_instance(t, huart), LAMBDA i :
             IF i = 0 THEN <<insts, 0>>
             ELSE <<[t EXCEPT ![i] = comm_instance_init(huart, timeout_ms, max_retry)], i>>))

(* ---------------- comm_manager.c: callbacks ---------------- *)
\* variant: no registered command is ever found
callback_never_found(inst, cmd) == -1

\* slot of the handler registered for cmd (from 0), -1 when there is none
comm_find_callback_index(inst, cmd) ==
    Bind({i \in 1..COMM_MAX_CALLBACKS :
            inst.handlers[i].callback # NULL /\ CStr(inst.handlers[i].cmd) = CStr(cmd)},
         LAMBDA hits :
           IF hits = {} THEN -1
           ELSE (CHOOSE i \in hits : \A j \in hits : i <= j) - 1)

\* [inst, ret]
comm_register_callback(inst, cmd, callback) ==
    IF callback = NULL \/ strlen(cmd) >= COMM_MAX_CMD_LENGTH
    THEN [inst |-> inst, ret |-> FALSE]
    ELSE Bind(comm_find_callback_index(inst, cmd), LAMBDA existing_index :
           IF existing_index >= 0
           THEN [inst |-> [inst EXCEPT !.handlers[existing_index + 1].callback = callback],
                 ret |-> TRUE]
           ELSE Bind({i \in 1..COMM_MAX_CALLBACKS : inst.handlers[i].callback = NULL},
                     LAMBDA free :
                       IF free # {}
                       THEN [inst |-> [inst EXCEPT
                                         !.handlers[CHOOSE i \in free : \A j \in free : i <= j] =
                                           [cmd |-> StrNCopy(cmd, COMM_MAX_CMD_LENGTH - 1),
                                            callback |-> callback]],
                             ret |-> TRUE]
                       ELSE [inst |-> inst, ret |-> FALSE]))

(* A context c = [inst, out] is an instance together with the calls made so
   far to the transport and to application callbacks, in order. *)
TxEvent(huart, via, bytes, ok) ==
    [ev |-> "tx", huart |-> huart, via |-> via, bytes |-> bytes, ok |-> ok]

\* the context of a result [inst, out, ret]
Ctx(r) == [inst |-> r.inst, out |-> r.out]

\* variant: a command without a handler is reported through the failure callback
unregistered_is_failure(c, cmd, data) ==
    Bind(comm_find_callback_index(c.inst, cmd), LAMBDA index :
      IF index >= 0
      THEN [inst |-> c.inst,
            out |-> Append(c.out, [ev |-> "handler", huart |-> c.inst.huart,
                                   fn |-> c.inst.handlers[index + 1].callback,
                                   cmd |-> CStr(cmd), data |-> CStr(data)]),
            ret |-> TRUE]
      ELSE [inst |-> c.inst,
            out |-> Append(c.out, [ev |-> "fail", huart |-> c.inst.huart,
                                   fn |-> c.inst.fail_callback,
                                   cmd |-> CStr(cmd), data |-> CStr(data),
                                   reason |-> "unregistered"]),
            ret |-> FALSE])

\* [inst, out, ret]
comm_call_callback(c, cmd, data) ==
    Bind(comm_find_callback_index(c.inst, cmd), LAMBDA index :
      IF index >= 0
      THEN [inst |-> c.inst,
            out |-> Append(c.out, [ev |-> "handler", huart |-> c.inst.huart,
                                   fn |-> c.inst.handlers[index + 1].callback,
                                   cmd |-> CStr(cmd), data |-> CStr(data)]),
            ret |-> TRUE]
      ELSE [inst |-> c.inst, out |-> c.out, ret |-> FALSE])

comm_set_fail_callback(inst, callback) == [inst EXCEPT !.fail_callback = callback]

comm_call_fail_callback(c, cmd, data, reason) ==
    IF c.inst.fail_callback # NULL
    THEN [inst |-> c.inst,
          out |-> Append(c.out, [ev |-> "fail", huart |-> c.inst.huart, fn |-> c.inst.fail_callback,
                                 cmd |-> CStr(cmd), data |-> CStr(data),
                                 reason |-> reason])]
    ELSE c

\* the name handed to the observer for a value of the state field
comm_state_to_string(state) ==
    CASE state = COMM_STATE_IDLE -> "IDLE"
      [] state = COMM_STATE_SENDING -> "SENDING"
      [] state = COMM_STATE_WAIT_ACK -> "WAIT_ACK"
      [] state = COMM_STATE_RETRY -> "RETRY"
      [] state = COMM_STATE_RECEIVING -> "RECEIVING"
      [] state = COMM_STATE_PROCESSING -> "PROCESSING"
      [] state = COMM_STATE_ERROR -> "ERROR"
      [] OTHER -> "UNKNOWN"

ObserverEvent(inst, new_state) ==
    [ev |-> "observer", huart |-> inst.huart, fn |-> inst.state_change_callback,
     from |-> comm_state_to_string(inst.state), to |-> comm_state_to_string(new_state),
     retry_count |-> inst.retry_count]

\* variant: the observer is told of every call, also when the state stays
set_state_notifies_always(c, new_state) ==
    [inst |-> [c.inst EXCEPT !.state = new_state],
     out |-> IF c.inst.state_change_callback # NULL
             THEN Append(c.out, ObserverEvent(c.inst, new_state))
             ELSE c.out]

comm_set_state(c, new_state) ==
    IF c.inst.state # new_state
    THEN [inst |-> [c.inst EXCEPT !.state = new_state],
          out |-> IF c.inst.state_change_callback # NULL
                  THEN Append(c.out, ObserverEvent(c.inst, new_state))
                  ELSE c.out]
    ELSE c

(* ---------------- comm_manager.c: timeout and retry ---------------- *)
\* env = [now, it, blk]: HAL_GetTick() and the status (HAL_OK or not) that
\* HAL_UART_Transmit_IT and HAL_UART_Transmit return during the operation

\* variant: the elapsed time counts only while the clock has not wrapped
timeout_without_wrap(inst, env) ==
    /\ inst.state = COMM_STATE_WAIT_ACK
    /\ U32Geq(env.now, inst.last_send_time)
    /\ U32Geq(U32Sub(env.now, inst.last_send_time), inst.timeout_ms)

comm_is_timeout(inst, env) ==
    /\ inst.state = COMM_STATE_WAIT_ACK
    /\ U32Geq(U32Sub(env.now, inst.last_send_time), inst.timeout_ms)

\* [inst, out, ret]
comm_send_raw(c, data, length, env) ==
    IF length = 0 THEN [inst |-> c.inst, out |-> c.out, ret |-> FALSE]
    ELSE [inst |-> IF env.blk THEN [c.inst EXCEPT !.last_send_time = env.now] ELSE c.inst,
          out |-> Append(c.out, TxEvent(c.inst.huart, "BLOCK", SubSeq(data, 1, length), env.blk)),
          ret |-> env.blk]

\* variants: the retry budget is never used up; it is used up one retry early
retry_unbounded(inst) == inst.retry_count >= 0
retry_one_short(inst) == inst.retry_count + 1 < inst.max_retry

RetryAllowed(inst) == inst.retry_count < inst.max_retry

\* variant: a retransmission is made in the state RETRY
timeout_enters_retry(c, env) ==
    IF RetryAllowed(c.inst)
    THEN comm_set_state([inst |-> [c.inst EXCEPT !.retry_count = @ + 1,
                                                 !.last_send_time = env.now],
                         out |-> c.out],
                        COMM_STATE_RETRY)
    ELSE [comm_set_state(c, COMM_STATE_IDLE) EXCEPT !.inst.retry_count = 0]

comm_handle_timeout(c, env) ==
    IF RetryAllowed(c.inst)
    THEN Bind([inst |-> [c.inst EXCEPT !.retry_count = c.inst.retry_count + 1],
               out |-> Append(c.out, TxEvent(c.inst.huart, "IT",
                                             SubSeq(c.inst.tx_buffer, 1, c.inst.tx_length),
                                             env.it))],
              LAMBDA c1 :
                IF env.it
                THEN [comm_set_state(c1, COMM_STATE_WAIT_ACK) EXCEPT
                        !.inst.last_send_time = env.now]
                ELSE Bind(comm_send_raw(c1, c1.inst.tx_buffer, c1.inst.tx_length, env),
                          LAMBDA r :
                            IF r.ret THEN comm_set_state(Ctx(r), COMM_STATE_WAIT_ACK)
                            ELSE Ctx(r)))
    ELSE Bind(comm_call_fail_callback(c, c.inst.current_cmd, c.inst.current_data,
                                      FAIL_REASON),
              LAMBDA c1 :
                [comm_set_state(c1, COMM_STATE_IDLE) EXCEPT !.inst.retry_count = 0])

comm_is_frame_timeout(inst, env) ==
    /\ inst.parse_state # FRAME_STATE_IDLE
    /\ U32Geq(env.now, inst.frame_timeout)

comm_handle_frame_timeout(inst) ==
    [inst EXCEPT !.parse_state = FRAME_STATE_IDLE,
                 !.rx_index = 0,
                 !.new_frame_available = FALSE]

(* ---------------- comm_protocol.c: sequence numbers ---------------- *)
\* variant: the counter wraps to 0
next_sequence_unskipped(inst) == [inst EXCEPT !.tx_sequence = (@ + 1) % 256]

\* the instance after the call; the value returned is its tx_sequence
comm_get_next_tx_sequence(inst) ==
    [inst EXCEPT !.tx_sequence = IF (@ + 1) % 256 = 0 THEN 1 ELSE (@ + 1) % 256]

\* variant: the difference is not normalised across the wrap
diff_without_wrap(rx_sequence, rx_seq) == rx_seq - rx_sequence

\* int16_t diff, normalised as in comm_is_valid_rx_sequence
SeqDiff(rx_sequence, rx_seq) ==
    LET diff == rx_seq - rx_sequence
    IN  IF diff < -128 THEN diff + 256
        ELSE IF diff > 128 THEN diff - 256
        ELSE diff

comm_is_valid_rx_sequence(inst, rx_seq) ==
    LET diff == SeqDiff(inst.rx_sequence, rx_seq)
    IN  diff >= 1 /\ diff <= 10

\* variant: the baseline is not moved
rx_sequence_kept(inst, rx_seq) == inst

comm_update_rx_sequence(inst, rx_seq) == [inst EXCEPT !.rx_sequence = rx_seq]

(* ---------------- comm_protocol.c: frames ---------------- *)
\* "%s%c%s%c%02X": the bytes the CRC is computed over
FrameContent(cmd, data, seq) ==
    CStr(cmd) \o <<COMM_CMD_DATA_SEPARATOR>> \o CStr(data)
              \o <<COMM_FIELD_SEPARATOR>> \o Fmt02X(seq)

\* '{' content '#' CRC '}'
FrameBytes(content) ==
    Bind(content, LAMBDA s :
      <<COMM_FRAME_START>> \o s \o <<COMM_FIELD_SEPARATOR>>
          \o Fmt02X(comm_crc8_calculate(s)) \o <<COMM_FRAME_END>>)

\* variant: the builder refuses what comm_send_command refuses
build_length_strict(cmd, data) ==
    strlen(cmd) < COMM_MAX_CMD_LENGTH /\ strlen(data) < COMM_MAX_DATA_LENGTH

BuildLengthOk(cmd, data) ==
    strlen(cmd) <= COMM_MAX_CMD_LENGTH /\ strlen(data) <= COMM_MAX_DATA_LENGTH

\* comm_build_frame(instance, cmd, data, instance->tx_buffer, &frame_length):
\* [inst, ret, frame_length]
comm_build_frame(inst, cmd, data) ==
    IF ~BuildLengthOk(cmd, data)
    THEN [inst |-> inst, ret |-> FALSE, frame_length |-> 0]
    ELSE Bind(IF inst.retry_count > 0 THEN inst
              ELSE Bind(comm_get_next_tx_sequence(inst),
                        LAMBDA n : [n EXCEPT !.current_sequence = n.tx_sequence]),
           LAMBDA i1 :
             Bind(FrameContent(cmd, data, i1.current_sequence), LAMBDA content :
               IF 1 + Len(content) >= COMM_TX_BUFFER_SIZE
               THEN [inst |-> i1, ret |-> FALSE, frame_length |-> 0]
               ELSE Bind(FrameBytes(content), LAMBDA frame :
                      IF Len(frame) >= COMM_TX_BUFFER_SIZE
                      THEN [inst |-> [i1 EXCEPT !.tx_buffer =
                                        SubSeq(frame, 1, COMM_TX_BUFFER_SIZE - 1)],
                            ret |-> FALSE, frame_length |-> 0]
                      ELSE [inst |-> [i1 EXCEPT !.tx_buffer = frame,
                                                !.expected_ack_seq = i1.current_sequence],
                            ret |-> TRUE, frame_length |-> Len(frame)])))

\* the '}' branch of FRAME_STATE_CRC
ParseFrameEnd(inst) ==
    Bind(WriteAt(inst.rx_buffer, inst.rx_index, 0), LAMBDA buf :
      Bind([inst.pending_frame EXCEPT !.crc = strtol16_u8(buf)], LAMBDA f1 :
        Bind(FrameContent(f1.cmd, f1.data, f1.sequence), LAMBDA frame_for_crc :
          Bind(Len(frame_for_crc) > 0 /\ comm_crc8_verify(frame_for_crc, f1.crc),
               LAMBDA ok :
                 [inst EXCEPT !.rx_buffer = buf,
                              !.pending_frame = [f1 EXCEPT !.is_valid = ok],
                              !.new_frame_available = IF ok THEN TRUE ELSE @,
                              !.parse_state = FRAME_STATE_IDLE,
                              !.rx_index = 0]))))

\* variant: the parser runs whether or not a frame waits in the mailbox
mailbox_never_full(inst) == inst.new_frame_available /\ inst.huart = NULL

\* the guard at the head of the parser: a frame waits to be handled by comm_tick
MailboxFull(inst) == inst.new_frame_available

\* variant: a field takes bytes without limit
field_unbounded(inst, limit) == inst.rx_index >= 0

\* rx_index < limit, the test made before a byte is stored in a field
FieldHasRoom(inst, limit) == inst.rx_index < limit

comm_process_byte_in_interrupt(instance, byte, env) ==
    Bind(instance, LAMBDA inst :
        IF MailboxFull(inst) THEN inst
        ELSE CASE inst.parse_state = FRAME_STATE_IDLE ->
                  IF byte = COMM_FRAME_START
                  THEN [inst EXCEPT !.parse_state = FRAME_STATE_CMD,
                                    !.rx_index = 0,
                                    !.frame_timeout = U32Add(env.now, U32(COMM_FRAME_TIMEOUT_MS)),
                                    !.pending_frame = ZeroFrame]
                  ELSE inst
             [] inst.parse_state = FRAME_STATE_CMD ->
                  IF byte = COMM_CMD_DATA_SEPARATOR
                  THEN [inst EXCEPT !.pending_frame.cmd = WriteAt(@, inst.rx_index, 0),
                                    !.parse_state = FRAME_STATE_DATA,
                                    !.rx_index = 0]
                  ELSE IF FieldHasRoom(inst, COMM_MAX_CMD_LENGTH)
                  THEN [inst EXCEPT !.pending_frame.cmd = WriteAt(@, inst.rx_index, byte),
                                    !.rx_index = inst.rx_index + 1]
                  ELSE [inst EXCEPT !.parse_state = FRAME_STATE_IDLE]
             [] inst.parse_state = FRAME_STATE_DATA ->
                  IF byte = COMM_FIELD_SEPARATOR
                  THEN [inst EXCEPT !.pending_frame.data = WriteAt(@, inst.rx_index, 0),
                                    !.parse_state = FRAME_STATE_SEQ,
                                    !.rx_index = 0]
                  ELSE IF FieldHasRoom(inst, COMM_MAX_DATA_LENGTH)
                  THEN [inst EXCEPT !.pending_frame.data = WriteAt(@, inst.rx_index, byte),
                                    !.rx_index = inst.rx_index + 1]
                  ELSE [inst EXCEPT !.parse_state = FRAME_STATE_IDLE]
             [] inst.parse_state = FRAME_STATE_SEQ ->
                  IF byte = COMM_FIELD_SEPARATOR
                  THEN Bind(WriteAt(inst.rx_buffer, inst.rx_index, 0), LAMBDA buf :
                         [inst EXCEPT !.rx_buffer = buf,
                                      !.pending_frame.sequence = strtol16_u8(buf),
                                      !.parse_state = FRAME_STATE_CRC,
                                      !.rx_index = 0])
                  ELSE IF FieldHasRoom(inst, 2)
                  THEN [inst EXCEPT !.rx_buffer = WriteAt(@, inst.rx_index, byte),
                                    !.rx_index = inst.rx_index + 1]
                  ELSE [inst EXCEPT !.parse_state = FRAME_STATE_IDLE]
             [] inst.parse_state = FRAME_STATE_CRC ->
                  IF byte = COMM_FRAME_END THEN ParseFrameEnd(inst)
                  ELSE IF FieldHasRoom(inst, 2)
                  THEN [inst EXCEPT !.rx_buffer = WriteAt(@, inst.rx_index, byte),
                                    !.rx_index = inst.rx_index + 1]
                  ELSE [inst EXCEPT !.parse_state = FRAME_STATE_IDLE]
             [] OTHER -> [inst EXCEPT !.parse_state = FRAME_STATE_IDLE])

\* the frame comm_send_ack / comm_send_nak builds: {ACK:SS#00#CC}
ReplyFrame(cmd, seq) ==
    FrameBytes(cmd \o <<COMM_CMD_DATA_SEPARATOR>> \o Fmt02X(seq)
                   \o <<COMM_FIELD_SEPARATOR, 48, 48>>)

\* [inst, out, ret]
comm_send_ack(c, ack_seq, env) ==
    [inst |-> c.inst,
     out |-> Append(c.out, TxEvent(c.inst.huart, "BLOCK", ReplyFrame(COMM_CMD_ACK, ack_seq), env.blk)),
     ret |-> env.blk]

\* variant: no NAK goes out
nak_not_sent(c, nak_seq, env) == [inst |-> c.inst, out |-> c.out, ret |-> FALSE]

comm_send_nak(c, nak_seq, env) ==
    Bind(ReplyFrame(COMM_CMD_NAK, nak_seq), LAMBDA nak_frame :
      comm_send_raw(c, nak_frame, Len(nak_frame), env))

\* ack_seq == expected_ack_seq && state == WAIT_ACK
\* variant: any sequence acknowledges the pending command
ack_any_sequence(inst, ack_seq) == inst.state = COMM_STATE_WAIT_ACK

AckMatches(inst, ack_seq) ==
    ack_seq = inst.expected_ack_seq /\ inst.state = COMM_STATE_WAIT_ACK

\* the anti-loopback test made on a frame whose sequence was accepted
IsLoopback(inst, frame) ==
    inst.state = COMM_STATE_WAIT_ACK /\ frame.sequence = inst.expected_ack_seq

\* variant: a repeated sequence is rejected like any other
duplicate_rejected(inst, frame) ==
    IF comm_is_valid_rx_sequence(inst, frame.sequence)
    THEN (IF IsLoopback(inst, frame) THEN "loopback" ELSE "accept")
    ELSE "reject"

\* the branch taken for a data frame: "accept", "loopback", "duplicate", "reject"
DataFrameClass(inst, frame) ==
    IF comm_is_valid_rx_sequence(inst, frame.sequence)
    THEN (IF IsLoopback(inst, frame) THEN "loopback" ELSE "accept")
    ELSE IF SeqDiff(inst.rx_sequence, frame.sequence) = 0 THEN "duplicate"
    ELSE "reject"

comm_handle_complete_frame(c, frame, env) ==
    IF ~frame.is_valid THEN c
    ELSE IF CStr(frame.cmd) = COMM_CMD_ACK
    THEN IF AckMatches(c.inst, strtol16_u8(frame.data))
         THEN [comm_set_state(c, COMM_STATE_IDLE) EXCEPT !.inst.retry_count = 0]
         ELSE c
    ELSE IF CStr(frame.cmd) = COMM_CMD_NAK
    THEN IF AckMatches(c.inst, strtol16_u8(frame.data))
         THEN comm_handle_timeout(c, env)
         ELSE c
    ELSE Bind(DataFrameClass(c.inst, frame), LAMBDA class :
           CASE class = "loopback" -> c
             [] class = "accept" ->
                  Bind(Ctx(comm_send_ack([c EXCEPT !.inst =
                                            comm_update_rx_sequence(@, frame.sequence)],
                                         frame.sequence, env)),
                       LAMBDA c2 : Ctx(comm_call_callback(c2, frame.cmd, frame.data)))
             [] class = "duplicate" -> Ctx(comm_send_ack(c, frame.sequence, env))
             [] OTHER -> Ctx(comm_send_nak(c, frame.sequence, env)))

(* ---------------- comm.c: API ---------------- *)
SendLengthOk(cmd, data) ==
    ~(strlen(cmd) >= COMM_MAX_CMD_LENGTH \/ strlen(data) >= COMM_MAX_DATA_LENGTH)

\* the body of comm_send_command once the instance is found: [inst, out, ret]
SendOnInstance(inst, cmd, data, env) ==
    IF ~comm_instance_is_ready(inst) \/ ~SendLengthOk(cmd, data)
    THEN [inst |-> inst, out |-> <<>>, ret |-> FALSE]
    ELSE Bind(comm_build_frame([inst EXCEPT
                                  !.current_cmd = StrNCopy(cmd, COMM_MAX_CMD_LENGTH - 1),
                                  !.current_data = StrNCopy(data, COMM_MAX_DATA_LENGTH - 1),
                                  !.retry_count = 0],
                               cmd, data),
           LAMBDA b :
             IF ~b.ret THEN [inst |-> b.inst, out |-> <<>>, ret |-> FALSE]
             ELSE Bind([inst |-> [b.inst EXCEPT
                                    !.tx_length = b.frame_length,
                                    !.pending_frame = IF strlen(@.cmd) > 0 THEN ZeroFrame ELSE @],
                        out |-> <<TxEvent(b.inst.huart, "BLOCK",
                                          SubSeq(b.inst.tx_buffer, 1, b.frame_length),
                                          env.blk)>>],
                    LAMBDA c1 :
                      IF env.blk
                      THEN Bind(comm_set_state(c1, COMM_STATE_WAIT_ACK), LAMBDA c2 :
                             [inst |-> [c2.inst EXCEPT !.last_send_time = env.now],
                              out |-> c2.out, ret |-> TRUE])
                      ELSE [inst |-> c1.inst, out |-> c1.out, ret |-> FALSE]))

\* [insts, out, ret]
comm_send_command(insts, huart, cmd, data, env) ==
    Bind(comm_find_instance(insts, huart), LAMBDA i :
      IF i = 0 THEN [insts |-> insts, out |-> <<>>, ret |-> FALSE]
      ELSE Bind(SendOnInstance(insts[i], cmd, data, env), LAMBDA r :
             [insts |-> [insts EXCEPT ![i] = r.inst], out |-> r.out, ret |-> r.ret]))

\* [insts, ret]
comm_register_command_callback(insts, huart, cmd, callback) ==
    Bind(comm_find_instance(insts, huart), LAMBDA i :
      IF i = 0 THEN [insts |-> insts, ret |-> FALSE]
      ELSE Bind(comm_register_callback(insts[i], cmd, callback), LAMBDA r :
             [insts |-> [insts EXCEPT ![i] = r.inst], ret |-> r.ret]))

\* [insts, ret]
comm_register_fail_callback(insts, huart, callback) ==
    Bind(comm_find_instance(insts, huart), LAMBDA i :
      IF i = 0 THEN [insts |-> insts, ret |-> FALSE]
      ELSE [insts |-> [insts EXCEPT ![i] = comm_set_fail_callback(@, callback)], ret |-> TRUE])

\* [insts, ret]
comm_register_state_change_callback(insts, huart, callback) ==
    Bind(comm_find_instance(insts, huart), LAMBDA i :
      IF i = 0 THEN [insts |-> insts, ret |-> FALSE]
      ELSE [insts |-> [insts EXCEPT ![i].state_change_callback = callback], ret |-> TRUE])

comm_is_ready(insts, huart) ==
    Bind(comm_find_instance(insts, huart), LAMBDA i :
      IF i = 0 THEN FALSE ELSE comm_instance_is_ready(insts[i]))

comm_get_retry_count(insts, huart) ==
    Bind(comm_find_instance(insts, huart), LAMBDA i :
      IF i = 0 THEN 0 ELSE insts[i].retry_count)

comm_get_state_string(insts, huart) ==
    Bind(comm_find_instance(insts, huart), LAMBDA i :
      IF i = 0 THEN "NOT_FOUND" ELSE comm_state_to_string(insts[i].state))

\* [insts, ret]
comm_add_uart(insts, huart) ==
    IF huart = NULL THEN [insts |-> insts, ret |-> FALSE]
    ELSE IF comm_find_instance(insts, huart) # 0 THEN [insts |-> insts, ret |-> TRUE]
    ELSE Bind(comm_create_uart_instance(insts, huart, ADD_UART_TIMEOUT_MS,
                                        ADD_UART_MAX_RETRY),
              LAMBDA r :
                IF r[2] = 0 THEN [insts |-> insts, ret |-> FALSE]
                ELSE [insts |-> [r[1] EXCEPT ![r[2]].debug_enabled = TRUE], ret |-> TRUE])

\* one iteration of the loop of comm_tick, with the context after each step:
\* t1 after the send-timeout step, t2 after the frame-timeout step, t3 after
\* the inbound path, fin after the mailbox is cleared
TickInstance(inst, env) ==
    Bind([inst |-> inst, out |-> <<>>], LAMBDA c0 :
      Bind(IF comm_is_timeout(inst, env) THEN comm_handle_timeout(c0, env) ELSE c0,
           LAMBDA t1 :
        Bind(IF comm_is_frame_timeout(t1.inst, env)
             THEN [t1 EXCEPT !.inst = comm_handle_frame_timeout(@)]
             ELSE t1,
             LAMBDA t2 :
          IF t2.inst.new_frame_available
          THEN Bind(comm_handle_complete_frame(t2, t2.inst.pending_frame, env),
                    LAMBDA t3 :
                      [t0 |-> c0, t1 |-> t1, t2 |-> t2, t3 |-> t3,
                       fin |-> [t3 EXCEPT !.inst.new_frame_available = FALSE,
                                          !.inst.pending_frame = ZeroFrame]])
          ELSE [t0 |-> c0, t1 |-> t1, t2 |-> t2, t3 |-> t2, fin |-> t2])))

\* a channel that waits for an ACK whose time has not come
Busy(inst, env) == inst.state = COMM_STATE_WAIT_ACK /\ ~comm_is_timeout(inst, env)

\* variant: the loop ends at the first channel that is still waiting
tick_until_busy(insts, env) ==
    [i \in 1..Len(insts) |->
       IF \E j \in 1..(i - 1) : Busy(insts[j], env)
       THEN Bind([inst |-> insts[i], out |-> <<>>], LAMBDA c :
              [t0 |-> c, t1 |-> c, t2 |-> c, t3 |-> c, fin |-> c])
       ELSE TickInstance(insts[i], env)]

\* the loop of comm_tick over the table
comm_tick(insts, env) == [i \in 1..Len(insts) |-> TickInstance(insts[i], env)]

\* comm_uart_rx_callback with huart->ErrorCode = err and the byte in rx_byte
RxOnInstance(inst, byte, err, env) ==
    comm_process_byte_in_interrupt(
        IF err = "ORE"
        THEN [inst EXCEPT !.rx_byte = byte, !.parse_state = FRAME_STATE_IDLE, !.rx_index = 0]
        ELSE [inst EXCEPT !.rx_byte = byte],
        byte, env)

(* ================= the state machine ================= *)
VARIABLES
    instances,  \* g_comm_manager.instances[0 .. instance_count-1]
    now,        \* HAL_GetTick()
    wire,       \* per UART, the bytes of the peer's frame not yet received
    out,        \* transport and callback calls made by the last operation
    op,         \* the last operation: arguments, result, the table before it, the
                \* contexts after each step of a tick (ph) and, at a tick, the
                \* time since last_send_time was last set (elapsed)
    ghost       \* history: per channel since its last accepted send, the handler
                \* registered last for each command (last), and model budgets

vars == <<instances, now, wire, out, op, ghost>>

(* ---------------- bounds of the model ---------------- *)
MaxSends == 2        \* sends that reach the frame builder
MaxClock == 8        \* clock advances since start-up
MaxPeerSeq == 2      \* sequence numbers the peer uses
MaxWire == 2         \* frames the peer puts on the wire byte by byte
MaxWait == 3         \* clock advances while frames arrive byte by byte

(* ---------------- the environment ---------------- *)
UARTS == {"huart2", "huart3"}
H1 == "huart2"
CmdP == <<80>>
CmdQ == <<81>>
\* the clock when comm_init runs: just after reset, or shortly before it wraps
BootClock == U32(0)
StartClocks == {BootClock, U32Sub(U32(0), U32(ADD_UART_TIMEOUT_MS \div 2))}

\* amounts of time that pass between two operations
ClockSteps == {1, ADD_UART_TIMEOUT_MS - 1}

\* frames a peer may put on the wire
PeerFrame(cmd, data, seq) == FrameBytes(FrameContent(cmd, data, seq))
PeerFrames ==
    UNION {{PeerFrame(COMM_CMD_ACK, Fmt02X(s), 0),
            PeerFrame(COMM_CMD_NAK, Fmt02X(s), 0),
            PeerFrame(CmdP, <<>>, s)} : s \in 1..MaxPeerSeq}

\* per channel: the frame of the last accepted send, the send timeouts and the
\* failure callbacks since it, the time at which last_send_time was last set
\* and the time at which the parser last left IDLE for an opening brace
NoChanGhost == [first_frame |-> <<>>, timeouts |-> 0, fails |-> 0, sent_at |-> 0,
                opened_at |-> 0]

\* sent_at after an operation that took the instance from a to b at time t
SentAt(g, a, b, t) == IF b.last_send_time # a.last_send_time THEN t ELSE g.sent_at

\* the table after comm_init(); comm_add_uart(&huart2) and the registration of
\* a handler for "P", a failure callback and a state observer
SetupInstances ==
    LET a == comm_add_uart(<<>>, H1).insts
        r == comm_register_callback(a[1], CmdP, "on_P").inst
        f == comm_set_fail_callback(r, "on_fail")
    IN  <<[f EXCEPT !.state_change_callback = "on_state"]>>

\* op while no operation of the library has run since the last step of the environment
InitOp == [name |-> "none", huart |-> NULL, cmd |-> <<>>, data |-> <<>>, byte |-> 0,
           blk |-> TRUE, ret |-> TRUE, pre |-> <<>>, ph |-> <<>>, elapsed |-> <<>>,
           now |-> U32(0)]

InitAt(clocks) ==
    /\ instances = SetupInstances
    /\ now \in clocks
    /\ wire = [u \in UARTS |-> <<>>]
    /\ out = <<>>
    /\ op = InitOp
    /\ ghost = [chan |-> [i \in 1..Len(instances) |-> NoChanGhost],
                clock |-> 0, peer |-> 0, time |-> 0, sends |-> 0,
                regs |-> 0, last |-> <<>>]

Init == InitAt({BootClock})

RECURSIVE Flatten(_)
Flatten(ss) == IF ss = <<>> THEN <<>> ELSE Head(ss) \o Flatten(Tail(ss))

CountEv(evs, kind) == Cardinality({k \in 1..Len(evs) : evs[k].ev = kind})

(* ---------------- operations ---------------- *)
Send(h, cmd, data, blk) ==
    \E r \in {comm_send_command(instances, h, cmd, data,
                                [now |-> now, it |-> TRUE, blk |-> blk])} :
    \E i \in {comm_find_instance(instances, h)} :
        /\ r.insts # instances => ghost.sends < MaxSends
        /\ instances' = r.insts
        /\ out' = r.out
        /\ op' = [name |-> "send", huart |-> h, cmd |-> cmd, data |-> data, byte |-> 0,
                  blk |-> blk, ret |-> r.ret, pre |-> instances, ph |-> <<>>, elapsed |-> <<>>,
                  now |-> now]
        /\ ghost' = [ghost EXCEPT
                       !.chan = IF r.ret
                                THEN [@ EXCEPT ![i] = [NoChanGhost EXCEPT
                                                         !.first_frame = r.out[1].bytes,
                                                         !.sent_at = ghost.time,
                                                         !.opened_at = ghost.chan[i].opened_at]]
                                ELSE @,
                       !.sends = IF r.insts # instances THEN @ + 1 ELSE @]
        /\ UNCHANGED <<now, wire>>

Tick(it, blk) ==
    \E env \in {[now |-> now, it |-> it, blk |-> blk]} :
    \E ph \in {comm_tick(instances, env)} :
        /\ instances' = [i \in 1..Len(instances) |-> ph[i].fin.inst]
        /\ out' = Flatten([i \in 1..Len(instances) |-> ph[i].fin.out])
        /\ op' = [name |-> "tick", huart |-> NULL, cmd |-> <<>>, data |-> <<>>, byte |-> 0,
                  blk |-> TRUE, ret |-> TRUE, pre |-> instances, ph |-> ph,
                  elapsed |-> [i \in 1..Len(instances) |-> ghost.time - ghost.chan[i].sent_at],
                  now |-> now]
        /\ ghost' = [ghost EXCEPT !.chan = [i \in 1..Len(instances) |->
                       [@[i] EXCEPT
                          !.timeouts = @ + (IF comm_is_timeout(instances[i], env) THEN 1 ELSE 0),
                          !.fails = @ + CountEv(ph[i].fin.out, "fail"),
                          !.sent_at = SentAt(ghost.chan[i], instances[i], ph[i].fin.inst,
                                             ghost.time)]]]
        /\ UNCHANGED <<now, wire>>

RxByte(h, err) ==
    /\ wire[h] # <<>>
    /\ \E i \in {comm_find_instance(instances, h)} :
       \E post \in {IF i = 0 THEN instances
                    ELSE [instances EXCEPT ![i] =
                            RxOnInstance(@, Head(wire[h]), err,
                                         [now |-> now, it |-> TRUE, blk |-> TRUE])]} :
           /\ instances' = post
           /\ op' = [name |-> "rx", huart |-> h, cmd |-> <<>>, data |-> <<>>,
                     byte |-> Head(wire[h]),
                     blk |-> TRUE, ret |-> TRUE, pre |-> instances, ph |-> <<>>, elapsed |-> <<>>,
                     now |-> now]
           /\ ghost' = IF i # 0 /\ instances[i].parse_state = FRAME_STATE_IDLE
                               /\ post[i].parse_state # FRAME_STATE_IDLE
                       THEN [ghost EXCEPT !.chan[i].opened_at = ghost.time]
                       ELSE ghost
    /\ wire' = [wire EXCEPT ![h] = Tail(@)]
    /\ out' = <<>>
    /\ UNCHANGED now

\* the byte callbacks of one whole frame, with no other operation in between
\* (the burst is halved so that the evaluation does not nest once per byte)
RECURSIVE RxBurst(_, _, _)
RxBurst(inst, bytes, env) ==
    IF bytes = <<>> THEN inst
    ELSE IF Len(bytes) = 1 THEN RxOnInstance(inst, bytes[1], "NONE", env)
    ELSE Bind(RxBurst(inst, SubSeq(bytes, 1, Len(bytes) \div 2), env), LAMBDA half :
           RxBurst(half, SubSeq(bytes, (Len(bytes) \div 2) + 1, Len(bytes)), env))

RxFrame(h, frame) ==
    /\ LET i == comm_find_instance(instances, h)
           env == [now |-> now, it |-> TRUE, blk |-> TRUE]
       IN  /\ instances' = IF i = 0 THEN instances
                           ELSE [instances EXCEPT ![i] = RxBurst(@, frame, env)]
           /\ op' = [name |-> "rxframe", huart |-> h, cmd |-> <<>>, data |-> frame, byte |-> 0,
                     blk |-> TRUE, ret |-> TRUE, pre |-> instances, ph |-> <<>>, elapsed |-> <<>>,
                  now |-> now]
    /\ out' = <<>>
    /\ UNCHANGED <<now, wire, ghost>>

PeerSend(h, frame) ==
    /\ wire[h] = <<>>
    /\ ghost.peer < MaxWire
    /\ wire' = [wire EXCEPT ![h] = frame]
    /\ ghost' = [ghost EXCEPT !.peer = @ + 1]
    /\ out' = <<>>
    /\ op' = InitOp
    /\ UNCHANGED <<instances, now>>

Advance(d) ==
    /\ ghost.clock < MaxClock
    /\ now' = U32Add(now, U32(d))
    /\ ghost' = [ghost EXCEPT !.clock = @ + 1, !.time = @ + d]
    /\ out' = <<>>
    /\ op' = InitOp
    /\ UNCHANGED <<instances, wire>>

DoSend == \E blk \in BOOLEAN : Send(H1, CmdP, <<>>, blk)
DoTick == \E it \in BOOLEAN, blk \in BOOLEAN : Tick(it, blk)
DoRxFrame == \E f \in PeerFrames : RxFrame(H1, f)
DoAdvance == \E d \in ClockSteps : Advance(d)

Next == DoSend \/ DoTick \/ DoRxFrame

Spec == Init /\ [][Next]_vars

NextClock == DoSend \/ DoTick \/ DoAdvance

SpecClock == InitAt(StartClocks) /\ [][NextClock]_vars

(* ---------------- sends at the length limits ---------------- *)
Rep(b, n) == [k \in 1..n |-> b]

\* commands and data just below, at and just above the maximum lengths
LenCmds == {Rep(80, n) : n \in {COMM_MAX_CMD_LENGTH - 1, COMM_MAX_CMD_LENGTH,
                                COMM_MAX_CMD_LENGTH + 1}}
LenDatas == {Rep(49, n) : n \in {COMM_MAX_DATA_LENGTH - 1, COMM_MAX_DATA_LENGTH,
                                 COMM_MAX_DATA_LENGTH + 1}}
LenSends == {<<cmd, <<>>>> : cmd \in LenCmds} \cup {<<CmdP, data>> : data \in LenDatas}

DoSendLen == \E s \in LenSends, blk \in BOOLEAN : Send(H1, s[1], s[2], blk)

DoRxAck == \E s \in 1..MaxPeerSeq : RxFrame(H1, PeerFrame(COMM_CMD_ACK, Fmt02X(s), 0))

NextLen == DoSendLen \/ DoTick \/ DoRxAck

SpecLen == Init /\ [][NextLen]_vars

(* ---------------- inbound frames of every kind ---------------- *)
DataP == <<49, 50>>
\* a sequence number outside the window of every baseline the model reaches
FarSeq == 200

\* a frame whose CRC field is not the CRC of its content
BadCrcFrame(cmd, data, seq) ==
    Bind(FrameContent(cmd, data, seq), LAMBDA content :
      <<COMM_FRAME_START>> \o content \o <<COMM_FIELD_SEPARATOR>>
          \o Fmt02X((comm_crc8_calculate(content) + 1) % 256) \o <<COMM_FRAME_END>>)

BadCrcFrames ==
    UNION {{BadCrcFrame(COMM_CMD_ACK, Fmt02X(s), 0),
            BadCrcFrame(COMM_CMD_NAK, Fmt02X(s), 0),
            BadCrcFrame(CmdP, DataP, s)} : s \in 1..MaxPeerSeq}

\* acknowledgements, data frames with and without a registered handler, in
\* and out of the window, and frames damaged on the way
RxFrames ==
    PeerFrames
      \cup {PeerFrame(CmdP, DataP, s) : s \in (1..MaxPeerSeq) \cup {FarSeq}}
      \cup {PeerFrame(CmdQ, DataP, MaxPeerSeq)}
      \cup BadCrcFrames

DoRxAny == \E f \in RxFrames : RxFrame(H1, f)

NextRx == DoSend \/ DoTick \/ DoRxAny

SpecRx == Init /\ [][NextRx]_vars

(* ---------------- frames arriving byte by byte while time passes ---------------- *)
\* the clock when comm_init runs: just after reset, or less than a frame
\* timeout before it wraps
WireClocks == {BootClock, U32Sub(U32(0), U32(COMM_FRAME_TIMEOUT_MS \div 2))}

WireSteps == {1, COMM_FRAME_TIMEOUT_MS - 1}

WireFrames == {PeerFrame(CmdP, <<>>, s) : s \in 1..MaxPeerSeq}

DoPeerSend == \E f \in WireFrames : PeerSend(H1, f)
DoRxByte == \E err \in {"NONE", "ORE"} : RxByte(H1, err)
DoWait == \E d \in WireSteps : ghost.clock < MaxWait /\ Advance(d)

NextWire == DoPeerSend \/ DoRxByte \/ DoTick \/ DoWait

SpecWire == InitAt(WireClocks) /\ [][NextWire]_vars

(* ---------------- sends from every value of the sequence counter ---------------- *)
\* a channel in IDLE whose last command, sent with sequence t, was
\* acknowledged (t = 0: nothing was sent yet)
InitTx ==
    /\ instances \in {<<[SetupInstances[1] EXCEPT !.tx_sequence = t,
                                                  !.current_sequence = t,
                                                  !.expected_ack_seq = t]>> : t \in 0..255}
    /\ now = BootClock
    /\ wire = [u \in UARTS |-> <<>>]
    /\ out = <<>>
    /\ op = InitOp
    /\ ghost = [chan |-> <<NoChanGhost>>, clock |-> 0, peer |-> 0, time |-> 0, sends |-> 0,
                regs |-> 0, last |-> <<>>]

\* the peer acknowledges the pending command
DoAckPending ==
    /\ instances[1].state = COMM_STATE_WAIT_ACK
    /\ RxFrame(H1, PeerFrame(COMM_CMD_ACK, Fmt02X(instances[1].expected_ack_seq), 0))

NextTx == DoSend \/ DoTick \/ DoAckPending

SpecTx == InitTx /\ [][NextTx]_vars

(* ---------------- building a frame and parsing its bytes ---------------- *)
MaxBuilds == 1       \* frames built from each value of the sequence counter

H2 == "huart3"

\* a second channel, its parser in IDLE and its mailbox empty
IdleParser == comm_add_uart(SetupInstances, H2).insts[2]

\* values of the sequence counter before the first frame is built
CodecStarts == {0, 9, 170, 254, 255}

\* <<command, data>>: empty, short, of the maximum lengths, with bytes that
\* are hex digits, blanks or above 127, and with a delimiter inside
CodecInputs ==
    {<<<<>>, <<>>>>, <<CmdP, DataP>>,
     <<Rep(80, COMM_MAX_CMD_LENGTH), Rep(49, COMM_MAX_DATA_LENGTH)>>,
     <<<<65, 255>>, <<32, 97, 70, 1>>>>,
     <<CmdP, <<49, COMM_FIELD_SEPARATOR, 50>>>>}

InitCodec ==
    /\ instances \in {<<[SetupInstances[1] EXCEPT !.tx_sequence = t,
                                                  !.current_sequence = t,
                                                  !.expected_ack_seq = t],
                        IdleParser>> : t \in CodecStarts}
    /\ now = BootClock
    /\ wire = [u \in UARTS |-> <<>>]
    /\ out = <<>>
    /\ op = InitOp
    /\ ghost = [chan |-> <<NoChanGhost, NoChanGhost>>,
                clock |-> 0, peer |-> 0, time |-> 0, sends |-> 0,
                regs |-> 0, last |-> <<>>]

\* byte b with bit k inverted
FlipBit(b, k) == Xor8(b, 2 ^ k)

\* comm_build_frame on the first channel; the bytes it leaves in tx_buffer go
\* one at a time into the idle parser, whose state after them is kept as the
\* second channel
RoundTrip(cmd, data) ==
    /\ ghost.peer < MaxBuilds
    /\ \E b \in {comm_build_frame(instances[1], cmd, data)} :
       \E rx \in {IF b.ret
                  THEN RxBurst(IdleParser, SubSeq(b.inst.tx_buffer, 1, b.frame_length),
                               [now |-> now, it |-> TRUE, blk |-> TRUE])
                  ELSE IdleParser} :
          /\ instances' = <<b.inst, rx>>
          /\ op' = [name |-> "roundtrip", huart |-> H1, cmd |-> cmd, data |-> data,
                    byte |-> 0, blk |-> TRUE, ret |-> b.ret, pre |-> instances,
                    ph |-> <<>>, elapsed |-> <<>>, now |-> now]
    /\ ghost' = [ghost EXCEPT !.peer = @ + 1]
    /\ out' = <<>>
    /\ UNCHANGED <<now, wire>>

\* the frame just built reaches the idle parser with bit `bit` of its byte k
\* inverted
Tamper(k, bit) ==
    /\ op.name = "roundtrip"
    /\ k \in 2..(Len(instances[1].tx_buffer) - 1)
    /\ \E bytes \in {[instances[1].tx_buffer EXCEPT ![k] = FlipBit(@, bit)]} :
          /\ instances' = <<instances[1],
                            RxBurst(IdleParser, bytes, [now |-> now, it |-> TRUE, blk |-> TRUE])>>
          /\ op' = [name |-> "tamper", huart |-> H2, cmd |-> <<>>, data |-> bytes,
                    byte |-> k, blk |-> TRUE, ret |-> TRUE, pre |-> instances,
                    ph |-> <<>>, elapsed |-> <<>>, now |-> now]
    /\ out' = <<>>
    /\ UNCHANGED <<now, wire, ghost>>

DoRoundTrip == \E s \in CodecInputs : RoundTrip(s[1], s[2])
DoTamper == \E k \in 2..(COMM_TX_BUFFER_SIZE - 1), bit \in 0..7 : Tamper(k, bit)

NextCodec == DoRoundTrip \/ DoTamper

SpecCodec == InitCodec /\ [][NextCodec]_vars

(* ---------------- registering handlers ---------------- *)
MaxRegs == 2         \* registrations after start-up

\* the commands registered at start-up, in this order: "A" .. "H"
TableCmds == [k \in 1..COMM_MAX_CALLBACKS |-> <<64 + k>>]

\* commands registered later: the first and the last of the table, a new
\* one, a new one that begins like a registered one, and one that is too long
RegCmds == {TableCmds[1], TableCmds[COMM_MAX_CALLBACKS], <<64 + COMM_MAX_CALLBACKS + 1>>,
            TableCmds[1] \o TableCmds[2], [k \in 1..COMM_MAX_CMD_LENGTH |-> 65]}

RegFns == {"g", "h", NULL}

\* the channel after comm_add_uart and k registrations at start-up
RECURSIVE Registered(_)
Registered(k) ==
    IF k = 0 THEN comm_add_uart(<<>>, H1).insts[1]
    ELSE comm_register_callback(Registered(k - 1), TableCmds[k], "f").inst

InitReg ==
    /\ \E k \in 0..COMM_MAX_CALLBACKS :
         /\ instances = <<Registered(k)>>
         /\ ghost = [chan |-> <<NoChanGhost>>, clock |-> 0, peer |-> 0, time |-> 0,
                     sends |-> 0, regs |-> 0,
                     last |-> [c \in {TableCmds[j] : j \in 1..k} |-> "f"]]
    /\ now = BootClock
    /\ wire = [u \in UARTS |-> <<>>]
    /\ out = <<>>
    /\ op = InitOp

Register(h, cmd, fn) ==
    /\ ghost.regs < MaxRegs
    /\ \E r \in {comm_register_command_callback(instances, h, cmd, fn)} :
         /\ instances' = r.insts
         /\ op' = [name |-> "register", huart |-> h, cmd |-> cmd, data |-> <<>>, byte |-> 0,
                   blk |-> TRUE, ret |-> r.ret, pre |-> instances, ph |-> <<>>,
                   elapsed |-> <<>>, now |-> now, fn |-> fn]
         /\ ghost' = [ghost EXCEPT
                        !.regs = @ + 1,
                        !.last = IF r.ret
                                 THEN [c \in (DOMAIN @) \cup {cmd} |-> IF c = cmd THEN fn ELSE @[c]]
                                 ELSE @]
    /\ out' = <<>>
    /\ UNCHANGED <<now, wire>>

DoRegister == \E cmd \in RegCmds, fn \in RegFns : Register(H1, cmd, fn)

\* the peer sends the next data frame, for one of the commands
DoRxCommand ==
    \E cmd \in RegCmds :
      /\ instances[1].rx_sequence < MaxPeerSeq
      /\ RxFrame(H1, PeerFrame(cmd, <<>>, instances[1].rx_sequence + 1))

NextReg == DoRegister \/ DoRxCommand \/ DoTick

SpecReg == InitReg /\ [][NextReg]_vars

(* ---------------- several channels ---------------- *)
\* the handles the application passes to the library: nine UARTs, in the
\* order in which they are added at start-up
Handles == <<H1, H2, "huart1", "huart4", "huart5", "huart6", "uart7", "uart8", "lpuart1">>

\* the table after comm_init() and the set-up of the first k handles: the
\* first channel as in SetupInstances, the others with a handler for "P"
RECURSIVE Channels(_)
Channels(k) ==
    IF k = 0 THEN <<>>
    ELSE IF k = 1 THEN SetupInstances
    ELSE comm_register_command_callback(comm_add_uart(Channels(k - 1), Handles[k]).insts,
                                        Handles[k], CmdP, "on_P").insts

\* handles passed to comm_add_uart: the first, the ninth, none
AddHandles == {H1, Handles[COMM_MAX_INSTANCES + 1], NULL}

\* channels set up before the first step: none, one, all but one, all
StartCounts == {0, 1, COMM_MAX_INSTANCES - 1, COMM_MAX_INSTANCES}

\* handles named in other calls: the first, one that is never added, none
Stranger == "usart10"
CallHandles == {H1, Stranger, NULL}

\* the acknowledgement of a channel's first send
FirstAck == PeerFrame(COMM_CMD_ACK, Fmt02X(1), 0)

InitMulti ==
    /\ \E k \in StartCounts :
         /\ instances = Channels(k)
         /\ ghost = [chan |-> [i \in 1..k |-> NoChanGhost], clock |-> 0, peer |-> 0,
                     time |-> 0, sends |-> 0, regs |-> 0, last |-> <<>>]
    /\ now = BootClock
    /\ wire = [u \in UARTS |-> <<>>]
    /\ out = <<>>
    /\ op = InitOp

\* a call of the API that changes at most the instance table
ApiCall(name, h, fn, r) ==
    /\ instances' = r.insts
    /\ op' = [name |-> name, huart |-> h, cmd |-> <<>>, data |-> <<>>, byte |-> 0,
              blk |-> TRUE, ret |-> r.ret, pre |-> instances, ph |-> <<>>,
              elapsed |-> <<>>, now |-> now, fn |-> fn]
    /\ ghost' = [ghost EXCEPT !.chan = IF Len(r.insts) > Len(instances)
                                       THEN Append(@, NoChanGhost) ELSE @]
    /\ out' = <<>>
    /\ UNCHANGED <<now, wire>>

AddUart(h) == ApiCall("add_uart", h, NULL, comm_add_uart(instances, h))

RegisterFail(h, fn) ==
    ApiCall("register_fail", h, fn, comm_register_fail_callback(instances, h, fn))

RegisterObserver(h, fn) ==
    ApiCall("register_observer", h, fn, comm_register_state_change_callback(instances, h, fn))

IsReady(h) ==
    ApiCall("is_ready", h, NULL, [insts |-> instances, ret |-> comm_is_ready(instances, h)])

GetRetryCount(h) ==
    ApiCall("get_retry_count", h, NULL,
            [insts |-> instances, ret |-> comm_get_retry_count(instances, h)])

NextMulti ==
    \/ \E h \in AddHandles : AddUart(h)
    \/ \E h \in CallHandles : Send(h, CmdP, <<>>, TRUE)
    \/ \E h \in CallHandles : Register(h, CmdQ, "on_Q")
    \/ \E h \in CallHandles : RegisterFail(h, "on_fail2")
    \/ \E h \in CallHandles : RegisterObserver(h, "on_state2")
    \/ \E h \in CallHandles : IsReady(h)
    \/ \E h \in CallHandles : GetRetryCount(h)
    \/ \E h \in CallHandles : RxFrame(h, FirstAck)
    \/ Tick(TRUE, TRUE)

SpecMulti == InitMulti /\ [][NextMulti]_vars

(* ---------------- the checksum of byte strings ---------------- *)
\* byte strings handed to the checksum: none, every single byte, and strings
\* of 2 and 3 bytes over a few values
CrcBytes == {0, 1, 65, 128, 255}
CrcInputs ==
    {<<>>} \cup {<<b>> : b \in 0..255}
           \cup {<<a, b>> : a, b \in CrcBytes}
           \cup {<<a, b, c>> : a, b, c \in CrcBytes}

\* checksums a frame may carry for a string
CrcExpected(d) == {0, 7, 192, 255, comm_crc8_calculate(d)}

InitCrc ==
    /\ instances = <<>>
    /\ ghost = [chan |-> <<>>, clock |-> 0, peer |-> 0, time |-> 0, sends |-> 0,
                regs |-> 0, last |-> <<>>]
    /\ now = BootClock
    /\ wire = [u \in UARTS |-> <<>>]
    /\ out = <<>>
    /\ \E d \in CrcInputs : op = [InitOp EXCEPT !.data = d]

\* comm_crc8_verify(data, expected_crc), with the checksum of both branches
\* of comm_crc8_calculate kept in ph
Crc8Verify(expected_crc) ==
    /\ op.name = "none"
    /\ op' = [op EXCEPT !.name = "crc8_verify",
                        !.byte = expected_crc,
                        !.ret = comm_crc8_verify(op.data, expected_crc),
                        !.ph = <<comm_crc8_calculate(op.data),
                                 comm_crc8_calculate_bitwise(op.data)>>]
    /\ UNCHANGED <<instances, now, wire, out, ghost>>

NextCrc == \E e \in CrcExpected(op.data) : Crc8Verify(e)

SpecCrc == InitCrc /\ [][NextCrc]_vars

(* ---------------- a pending command under a periodic timer ---------------- *)
MaxTicks == 9        \* timer interrupts after the command was sent

\* time between two timer interrupts, below the send timeout
TickPeriod == ADD_UART_TIMEOUT_MS - 1

\* frames the peer may send while the command waits: the matching ACK and
\* NAK, an ACK for another sequence, and commands with a sequence number the
\* receive window accepts (2) and one it refuses (FarSeq)
PendingFrames ==
    {PeerFrame(COMM_CMD_ACK, Fmt02X(1), 0), PeerFrame(COMM_CMD_NAK, Fmt02X(1), 0),
     PeerFrame(COMM_CMD_ACK, Fmt02X(2), 0),
     PeerFrame(CmdP, <<>>, 2), PeerFrame(CmdP, <<>>, FarSeq)}

\* the first command was sent and accepted by the transport at start-up
InitPending ==
    /\ \E r \in {comm_send_command(SetupInstances, H1, CmdP, <<>>,
                                   [now |-> BootClock, it |-> TRUE, blk |-> TRUE])} :
         /\ instances = r.insts
         /\ ghost = [chan |-> <<[NoChanGhost EXCEPT !.first_frame = r.out[1].bytes]>>,
                     clock |-> 0, peer |-> 0, time |-> 0, sends |-> 1, regs |-> 0,
                     last |-> <<>>]
    /\ now = BootClock
    /\ wire = [u \in UARTS |-> <<>>]
    /\ out = <<>>
    /\ op = InitOp

\* the timer interrupt d ms after the previous one: the clock has advanced and
\* comm_tick runs
TimerTick(d, it, blk) ==
    /\ ghost.clock < MaxTicks
    /\ \E env \in {[now |-> U32Add(now, U32(d)), it |-> it, blk |-> blk]} :
       \E ph \in {comm_tick(instances, env)} :
           /\ now' = env.now
           /\ instances' = [i \in 1..Len(instances) |-> ph[i].fin.inst]
           /\ out' = Flatten([i \in 1..Len(instances) |-> ph[i].fin.out])
           /\ op' = [name |-> "tick", huart |-> NULL, cmd |-> <<>>, data |-> <<>>, byte |-> 0,
                     blk |-> TRUE, ret |-> TRUE, pre |-> instances, ph |-> ph,
                     elapsed |-> [i \in 1..Len(instances) |->
                                    ghost.time + d - ghost.chan[i].sent_at],
                     now |-> env.now]
           /\ ghost' = [ghost EXCEPT
                          !.clock = @ + 1,
                          !.time = @ + d,
                          !.chan = [i \in 1..Len(instances) |->
                            [@[i] EXCEPT
                               !.timeouts = @ + (IF comm_is_timeout(instances[i], env)
                                                 THEN 1 ELSE 0),
                               !.fails = @ + CountEv(ph[i].fin.out, "fail"),
                               !.sent_at = SentAt(ghost.chan[i], instances[i], ph[i].fin.inst,
                                                  ghost.time + d)]]]
    /\ UNCHANGED wire

DoTimerTick == \E blk \in BOOLEAN : TimerTick(TickPeriod, TRUE, blk)

\* a frame arrives while the mailbox is free
DoRxPending ==
    \E f \in PendingFrames : ~instances[1].new_frame_available /\ RxFrame(H1, f)

NextPending == DoTimerTick \/ DoRxPending

SpecPending == InitPending /\ [][NextPending]_vars

(* ================= properties ================= *)
\* the channels an operation on handle h addresses
Addressed(h) == {i \in 1..Len(op.pre) : op.pre[i].huart = h}

\* the sequence number that follows s on the sending side
NextSeq(s) == IF s = 255 THEN 1 ELSE s + 1

\* the bytes {cmd:data#SS#CC} on the wire
WireFrame(cmd, data, seq) ==
    LET content == cmd \o <<58>> \o data \o <<35>> \o Fmt02X(seq)
    IN  <<123>> \o content \o <<35>> \o Fmt02X(comm_crc8_calculate(content)) \o <<125>>

TxOf(evs) == SelectSeq(evs, LAMBDA e : e.ev = "tx")

\* the fields of a channel that a send works on
SendFields(inst) ==
    <<inst.state, inst.tx_sequence, inst.current_sequence, inst.expected_ack_seq,
      inst.retry_count, inst.current_cmd, inst.current_data>>

\* C1: a send on a channel that is in WAIT_ACK returns false, transmits
\* nothing and changes nothing; the frame kept for retransmission is still the
\* one of the single accepted, unacknowledged command.
C1_SendWhileWaitAck ==
    /\ \A i \in Addressed(op.huart) :
         (op.name = "send" /\ op.pre[i].state = COMM_STATE_WAIT_ACK)
            => /\ op.ret = FALSE
               /\ instances = op.pre
               /\ out = <<>>
    /\ \A i \in 1..Len(instances) :
         instances[i].state = COMM_STATE_WAIT_ACK
            => SubSeq(instances[i].tx_buffer, 1, instances[i].tx_length)
                 = ghost.chan[i].first_frame

C1_Witness ==
    /\ op.name = "send"
    /\ \E i \in Addressed(op.huart) : op.pre[i].state = COMM_STATE_WAIT_ACK
    /\ op.ret = FALSE
    /\ instances[1].state = COMM_STATE_WAIT_ACK

\* C2: a send on an IDLE channel with a command of 1..16 bytes and data of at
\* most 64 bytes, accepted by the transport, returns true, transmits exactly
\* one frame {cmd:data#SS#CC}, stores its sequence in expected_ack_seq and
\* current_sequence, zeroes retry_count, stamps last_send_time and enters
\* WAIT_ACK.
C2_SendFromIdle ==
    \A i \in Addressed(op.huart) :
      ( /\ op.name = "send"
        /\ op.pre[i].state = COMM_STATE_IDLE
        /\ Len(op.cmd) \in 1..COMM_MAX_CMD_LENGTH
        /\ Len(op.data) <= COMM_MAX_DATA_LENGTH
        /\ op.blk )
      => LET s == NextSeq(op.pre[i].tx_sequence)
         IN  /\ op.ret = TRUE
             /\ Len(TxOf(out)) = 1
             /\ TxOf(out)[1].bytes = WireFrame(op.cmd, op.data, s)
             /\ instances[i].expected_ack_seq = s
             /\ instances[i].current_sequence = s
             /\ instances[i].retry_count = 0
             /\ instances[i].last_send_time = op.now
             /\ instances[i].state = COMM_STATE_WAIT_ACK

\* C3: on an IDLE channel with a working transport, a send is accepted exactly
\* when the command has at most 16 bytes and the data at most 64 bytes; a
\* rejected send changes nothing and transmits nothing.
C3_LengthBounds ==
    \A i \in Addressed(op.huart) :
      (op.name = "send" /\ op.pre[i].state = COMM_STATE_IDLE /\ op.blk)
      => /\ op.ret = (Len(op.cmd) <= COMM_MAX_CMD_LENGTH /\ Len(op.data) <= COMM_MAX_DATA_LENGTH)
         /\ ~op.ret => (instances = op.pre /\ out = <<>>)

\* C4: a send on an IDLE channel that the transport refuses returns false and
\* leaves state, tx_sequence, current_sequence, expected_ack_seq, retry_count
\* and the retained command and data as they were before the call.
C4_TransportFailure ==
    \A i \in Addressed(op.huart) :
      (op.name = "send" /\ op.pre[i].state = COMM_STATE_IDLE /\ ~op.blk)
      => /\ op.ret = FALSE
         /\ SendFields(instances[i]) = SendFields(op.pre[i])

(* ---------------- the inbound path of a tick ---------------- *)
\* the frame the inbound path of the last tick dispatched on channel i, the
\* context before it and the context after it
Mailbox(i) == op.ph[i].t2.inst.pending_frame
BeforeInbound(i) == op.ph[i].t2
AfterInbound(i) == op.ph[i].t3

\* the last operation was a tick whose inbound path dispatched a valid frame
\* with command cmd on channel i
Dispatched(i, cmd) ==
    /\ op.name = "tick"
    /\ BeforeInbound(i).inst.new_frame_available
    /\ Mailbox(i).is_valid
    /\ CStr(Mailbox(i).cmd) = cmd

DispatchedData(i) ==
    /\ op.name = "tick"
    /\ BeforeInbound(i).inst.new_frame_available
    /\ Mailbox(i).is_valid
    /\ CStr(Mailbox(i).cmd) \notin {COMM_CMD_ACK, COMM_CMD_NAK}

\* the calls a step added to the context
Added(before, after) == SubSeq(after.out, Len(before.out) + 1, Len(after.out))

\* the sequence number written as two hexadecimal digits in data
CarriedSeq(data) == CHOOSE s \in 0..255 : Fmt02X(s) = CStr(data)

\* the timeout the channels are created with, in milliseconds
TimeoutMs == ADD_UART_TIMEOUT_MS

\* C5: a valid ACK whose data carries expected_ack_seq, handled while the
\* channel is in WAIT_ACK, moves the channel to IDLE with retry_count 0 and
\* does nothing else; a valid ACK with another sequence, or one handled in
\* IDLE, changes nothing, transmits nothing and invokes no callback.
C5_ValidAck ==
    \A i \in 1..Len(op.ph) :
      Dispatched(i, COMM_CMD_ACK)
      => LET pre == BeforeInbound(i)
             post == AfterInbound(i)
         IN  IF /\ pre.inst.state = COMM_STATE_WAIT_ACK
                /\ CarriedSeq(Mailbox(i).data) = pre.inst.expected_ack_seq
             THEN /\ post.inst = [pre.inst EXCEPT !.state = COMM_STATE_IDLE, !.retry_count = 0]
                  /\ \A k \in 1..Len(Added(pre, post)) : Added(pre, post)[k].ev = "observer"
             ELSE post = pre

C5_Witness ==
    /\ Len(op.ph) > 0
    /\ Dispatched(1, COMM_CMD_ACK)
    /\ BeforeInbound(1).inst.state = COMM_STATE_WAIT_ACK
    /\ BeforeInbound(1).inst.retry_count > 0
    /\ CarriedSeq(Mailbox(1).data) = BeforeInbound(1).inst.expected_ack_seq
    /\ instances[1].state = COMM_STATE_IDLE
    /\ instances[1].retry_count = 0

\* C6: a valid NAK whose data carries expected_ack_seq, handled while the
\* channel is in WAIT_ACK, has at once the effect of a send timeout: with
\* retries left retry_count grows by one and the stored frame is transmitted
\* again, with none left the failure callback runs once and the channel goes
\* to IDLE with retry_count 0. Any other NAK changes nothing.
C6_MatchingNak ==
    \A i \in 1..Len(op.ph) :
      Dispatched(i, COMM_CMD_NAK)
      => LET pre == BeforeInbound(i)
             post == AfterInbound(i)
             new == Added(pre, post)
         IN  IF /\ pre.inst.state = COMM_STATE_WAIT_ACK
                /\ CarriedSeq(Mailbox(i).data) = pre.inst.expected_ack_seq
             THEN /\ op.elapsed[i] < TimeoutMs
                  /\ \E it \in BOOLEAN, blk \in BOOLEAN :
                        post = comm_handle_timeout(pre, [now |-> op.now, it |-> it, blk |-> blk])
                  /\ IF pre.inst.retry_count < pre.inst.max_retry
                     THEN /\ post.inst.retry_count = pre.inst.retry_count + 1
                          /\ post.inst.state = COMM_STATE_WAIT_ACK
                          /\ Len(TxOf(new)) >= 1
                          /\ \A k \in 1..Len(new) :
                               new[k].ev = "tx" /\ new[k].bytes = ghost.chan[i].first_frame
                     ELSE /\ post.inst.retry_count = 0
                          /\ post.inst.state = COMM_STATE_IDLE
                          /\ CountEv(new, "fail") = 1
                          /\ CountEv(new, "tx") = 0
             ELSE post = pre

C6_Witness ==
    /\ Len(op.ph) > 0
    /\ Dispatched(1, COMM_CMD_NAK)
    /\ BeforeInbound(1).inst.state = COMM_STATE_WAIT_ACK
    /\ CarriedSeq(Mailbox(1).data) = BeforeInbound(1).inst.expected_ack_seq
    /\ BeforeInbound(1).inst.retry_count = BeforeInbound(1).inst.max_retry
    /\ CountEv(out, "fail") = 1
    /\ instances[1].state = COMM_STATE_IDLE

(* ---------------- the send-timeout step of a tick ---------------- *)
BeforeTimeout(i) == op.ph[i].t0
AfterTimeout(i) == op.ph[i].t1

\* at the last tick channel i was waiting and its timeout had run out
TimedOut(i) ==
    /\ op.name = "tick"
    /\ BeforeTimeout(i).inst.state = COMM_STATE_WAIT_ACK
    /\ op.elapsed[i] >= TimeoutMs

\* a retry at the timeout step of channel i; stamped tells in which cases
\* last_send_time is set to the time of the tick
RetryStep(i, stamped) ==
    LET pre == BeforeTimeout(i).inst
        post == AfterTimeout(i).inst
        calls == AfterTimeout(i).out
    IN  /\ post.retry_count = pre.retry_count + 1
        /\ Len(calls) >= 1
        /\ \A k \in 1..Len(calls) :
             calls[k].ev = "tx" /\ calls[k].bytes = ghost.chan[i].first_frame
        /\ post.state = COMM_STATE_WAIT_ACK
        /\ post.tx_sequence = pre.tx_sequence
        /\ post.current_sequence = pre.current_sequence
        /\ post.expected_ack_seq = pre.expected_ack_seq
        /\ post.last_send_time = (IF stamped THEN op.now ELSE pre.last_send_time)

TransportTook(i) ==
    \E k \in 1..Len(AfterTimeout(i).out) : AfterTimeout(i).out[k].ok

\* C7: at a tick with the channel in WAIT_ACK, the timeout run out and retries
\* left, retry_count grows by one, the stored frame is transmitted again byte
\* for byte, the channel stays in WAIT_ACK and the sequence numbers are kept;
\* last_send_time is set to the time of the tick when the transport takes the
\* retransmission and is kept when it refuses it. A channel in IDLE, or one
\* whose timeout has not run out (the clock may have wrapped since the send),
\* is left alone by the timeout step.
C7_TimeoutRetry ==
    \A i \in 1..Len(op.ph) :
      IF TimedOut(i)
      THEN BeforeTimeout(i).inst.retry_count < BeforeTimeout(i).inst.max_retry
             => RetryStep(i, TransportTook(i))
      ELSE AfterTimeout(i) = BeforeTimeout(i)

\* C7 as stated: last_send_time is set to the time of the tick at every retry
C7_AsStated ==
    \A i \in 1..Len(op.ph) :
      IF TimedOut(i)
      THEN BeforeTimeout(i).inst.retry_count < BeforeTimeout(i).inst.max_retry
             => RetryStep(i, TRUE)
      ELSE AfterTimeout(i) = BeforeTimeout(i)

\* a retry after the clock has wrapped since the frame was sent
C7_Witness ==
    /\ Len(op.ph) > 0
    /\ TimedOut(1)
    /\ op.elapsed[1] = TimeoutMs
    /\ ~U32Geq(op.now, BeforeTimeout(1).inst.last_send_time)
    /\ instances[1].retry_count = BeforeTimeout(1).inst.retry_count + 1
    /\ instances[1].last_send_time = op.now

\* C8: with max_retry = 3 the first three consecutive send timeouts each
\* retransmit and invoke no failure callback; the fourth invokes the failure
\* callback exactly once, with the retained command and data and the reason
\* of the retry time-out, and leaves the channel in IDLE with retry_count 0,
\* where the next send is accepted.
C8_RetryExhaustion ==
    \A i \in 1..Len(op.ph) :
      TimedOut(i)
      => LET k == ghost.chan[i].timeouts
             pre == BeforeTimeout(i).inst
             post == AfterTimeout(i).inst
             calls == AfterTimeout(i).out
         IN  /\ pre.max_retry = ADD_UART_MAX_RETRY
             /\ k \in 1..(ADD_UART_MAX_RETRY + 1)
             /\ k <= ADD_UART_MAX_RETRY
                  => /\ CountEv(calls, "fail") = 0
                     /\ ghost.chan[i].fails = 0
                     /\ post.state = COMM_STATE_WAIT_ACK
                     /\ post.retry_count = k
             /\ k = ADD_UART_MAX_RETRY + 1
                  => /\ CountEv(calls, "fail") = 1
                     /\ CountEv(calls, "tx") = 0
                     /\ calls[1] = [ev |-> "fail", huart |-> pre.huart,
                                    fn |-> pre.fail_callback,
                                    cmd |-> CmdP, data |-> <<>>, reason |-> FAIL_REASON]
                     /\ ghost.chan[i].fails = 1
                     /\ post.state = COMM_STATE_IDLE
                     /\ post.retry_count = 0
                     /\ instances[i].state = COMM_STATE_IDLE
                     /\ SendOnInstance(instances[i], CmdQ, <<>>,
                                       [now |-> op.now, it |-> TRUE, blk |-> TRUE]).ret

\* C8 as stated: the third consecutive timeout invokes the failure callback
\* and leaves the channel in IDLE with retry_count 0
C8_AsStated ==
    \A i \in 1..Len(op.ph) :
      (TimedOut(i) /\ ghost.chan[i].timeouts = ADD_UART_MAX_RETRY)
      => /\ ghost.chan[i].fails = 1
         /\ instances[i].state = COMM_STATE_IDLE
         /\ instances[i].retry_count = 0

\* the fourth timeout, after three retransmissions the transport took
C8_Witness ==
    /\ Len(op.ph) > 0
    /\ TimedOut(1)
    /\ ghost.chan[1].timeouts = ADD_UART_MAX_RETRY + 1
    /\ op.elapsed[1] = TimeoutMs
    /\ CountEv(out, "fail") = 1
    /\ instances[1].state = COMM_STATE_IDLE

\* C9: a data frame whose sequence equals expected_ack_seq, handled while the
\* channel is in WAIT_ACK, is ignored whatever rx_sequence is: nothing is
\* transmitted, no callback runs and the channel is unchanged.
C9_AntiLoopback ==
    \A i \in 1..Len(op.ph) :
      ( /\ DispatchedData(i)
        /\ BeforeInbound(i).inst.state = COMM_STATE_WAIT_ACK
        /\ Mailbox(i).sequence = BeforeInbound(i).inst.expected_ack_seq )
      => AfterInbound(i) = BeforeInbound(i)

(* ---------------- the receive window, for every pair of sequences ---------------- *)
\* a channel in IDLE that has accepted a frame with sequence r, when the byte
\* callbacks have stored a valid data frame with sequence q in its mailbox
InitSeq ==
    /\ instances \in
         {<<RxBurst([SetupInstances[1] EXCEPT !.rx_sequence = r], PeerFrame(CmdP, <<>>, q),
                    [now |-> BootClock, it |-> TRUE, blk |-> TRUE])>> :
            r \in 0..255, q \in 0..255}
    /\ now = BootClock
    /\ wire = [u \in UARTS |-> <<>>]
    /\ out = <<>>
    /\ op = InitOp
    /\ ghost = [chan |-> <<NoChanGhost>>, clock |-> 0, peer |-> 0, time |-> 0, sends |-> 0,
                regs |-> 0, last |-> <<>>]

\* a tick with a working transport
DoTickOk == Tick(TRUE, TRUE)

NextInbound == DoTickOk

SpecSeq == InitSeq /\ [][NextInbound]_vars

AckFor(seq) == WireFrame(COMM_CMD_ACK, Fmt02X(seq), 0)

\* C10: a valid data frame with sequence q is handled on a channel whose
\* rx_sequence is r. comm_is_valid_rx_sequence is true exactly when
\* (q - r) mod 256 is in 1..10; such a frame, unless it echoes the pending
\* command, is accepted (rx_sequence becomes q, it is acknowledged and its
\* handler runs). A frame with q = r is a duplicate (acknowledged again, no
\* handler, rx_sequence kept); every other frame is rejected (answered with a
\* NAK, no handler, rx_sequence kept).
C10_RxSequenceWindow ==
    \A i \in 1..Len(op.ph) :
      DispatchedData(i)
      => LET pre == BeforeInbound(i).inst
             post == AfterInbound(i).inst
             r == pre.rx_sequence
             q == Mailbox(i).sequence
             d == (q + 256 - r) % 256
             new == Added(BeforeInbound(i), AfterInbound(i))
             tx == TxOf(new)
             echo == pre.state = COMM_STATE_WAIT_ACK /\ q = pre.expected_ack_seq
         IN  /\ comm_is_valid_rx_sequence(pre, q) = (d \in 1..10)
             /\ (d \in 1..10 /\ ~echo)
                  => /\ post = [pre EXCEPT !.rx_sequence = q]
                     /\ Len(tx) = 1
                     /\ tx[1].bytes = AckFor(q)
                     /\ CountEv(new, "handler") = 1
             /\ d = 0
                  => /\ post = pre
                     /\ Len(tx) = 1
                     /\ tx[1].bytes = AckFor(q)
                     /\ CountEv(new, "handler") = 0
             /\ d \notin 0..10
                  => /\ post.rx_sequence = r
                     /\ Len(tx) = 1
                     /\ tx[1].bytes = WireFrame(COMM_CMD_NAK, Fmt02X(q), 0)
                     /\ CountEv(new, "handler") = 0

\* the frame 1 after the frame 250 is accepted across the wrap
C10_Witness ==
    /\ Len(op.ph) > 0
    /\ DispatchedData(1)
    /\ BeforeInbound(1).inst.rx_sequence = 250
    /\ Mailbox(1).sequence = 1
    /\ instances[1].rx_sequence = 1
    /\ CountEv(out, "handler") = 1

(* ---------------- data frames on the inbound path ---------------- *)
\* the distance of sequence q from the baseline r, counted upwards mod 256
Ahead(r, q) == (q + 256 - r) % 256

\* the frame in the mailbox echoes the sequence of the pending command
Echo(i) ==
    /\ BeforeInbound(i).inst.state = COMM_STATE_WAIT_ACK
    /\ Mailbox(i).sequence = BeforeInbound(i).inst.expected_ack_seq

\* the handlers registered on inst for exactly the command cmd
HandlersFor(inst, cmd) ==
    {inst.handlers[k].callback : k \in {j \in 1..COMM_MAX_CALLBACKS :
        inst.handlers[j].callback # NULL /\ inst.handlers[j].cmd = cmd}}

\* the calls made for an accepted or repeated frame: one ACK through the
\* blocking transmit, then the handlers fns in turn
IsAckThenHandlers(calls, i, fns) ==
    /\ Len(calls) = 1 + Cardinality(fns)
    /\ \E ok \in BOOLEAN :
         calls[1] = TxEvent(BeforeInbound(i).inst.huart, "BLOCK", AckFor(Mailbox(i).sequence), ok)
    /\ \A k \in 2..Len(calls) :
         /\ calls[k].ev = "handler"
         /\ calls[k].fn \in fns
         /\ calls[k].cmd = Mailbox(i).cmd
         /\ calls[k].data = Mailbox(i).data

\* C11: an accepted data frame (its sequence 1..10 ahead of rx_sequence, and
\* not an echo of the pending command) sets rx_sequence to its sequence and
\* changes nothing else of the channel, so tx_sequence, expected_ack_seq and
\* state are kept; the calls it makes are, in this order, one transmission of
\* {ACK:SS#00#CC} with SS the sequence in upper-case hex, and one call of the
\* handler registered for the command, with the command and data of the frame
\* (no call when none is registered).
C11_AcceptedFrame ==
    \A i \in 1..Len(op.ph) :
      ( /\ DispatchedData(i)
        /\ Ahead(BeforeInbound(i).inst.rx_sequence, Mailbox(i).sequence) \in 1..10
        /\ ~Echo(i) )
      => /\ AfterInbound(i).inst =
               [BeforeInbound(i).inst EXCEPT !.rx_sequence = Mailbox(i).sequence]
         /\ Cardinality(HandlersFor(BeforeInbound(i).inst, Mailbox(i).cmd)) <= 1
         /\ IsAckThenHandlers(Added(BeforeInbound(i), AfterInbound(i)), i,
                              HandlersFor(BeforeInbound(i).inst, Mailbox(i).cmd))

C11_Witness ==
    /\ Len(op.ph) > 0
    /\ DispatchedData(1)
    /\ BeforeInbound(1).inst.state = COMM_STATE_WAIT_ACK
    /\ BeforeInbound(1).inst.rx_sequence = 0
    /\ Mailbox(1).sequence = 2
    /\ Mailbox(1).data = DataP
    /\ instances[1].rx_sequence = 2
    /\ Len(out) = 2
    /\ out[1].ev = "tx" /\ out[1].bytes = <<123, 65, 67, 75, 58, 48, 50, 35, 48, 48, 35>>
                                            \o SubSeq(out[1].bytes, 12, 13) \o <<125>>
    /\ out[2].ev = "handler" /\ out[2].fn = "on_P" /\ out[2].data = DataP

\* C12: a data frame whose sequence equals rx_sequence is acknowledged again
\* and nothing else: one ACK for that sequence, no handler, the channel as it
\* was. A frame just accepted, handled again any number of times in a row, is
\* such a duplicate each time, so it reaches the handler once and is
\* acknowledged every time.
C12_DuplicateFrame ==
    \A i \in 1..Len(op.ph) :
      DispatchedData(i)
      => /\ Ahead(BeforeInbound(i).inst.rx_sequence, Mailbox(i).sequence) = 0
              => /\ AfterInbound(i).inst = BeforeInbound(i).inst
                 /\ IsAckThenHandlers(Added(BeforeInbound(i), AfterInbound(i)), i, {})
         /\ AfterInbound(i).inst.rx_sequence = Mailbox(i).sequence
              => \A blk \in BOOLEAN :
                   \E again \in {comm_handle_complete_frame(
                                   AfterInbound(i), Mailbox(i),
                                   [now |-> op.now, it |-> TRUE, blk |-> blk])} :
                      /\ again.inst = AfterInbound(i).inst
                      /\ IsAckThenHandlers(Added(AfterInbound(i), again), i, {})

C12_Witness ==
    /\ Len(op.ph) > 0
    /\ DispatchedData(1)
    /\ Mailbox(1).cmd = CmdP
    /\ Mailbox(1).sequence = MaxPeerSeq
    /\ BeforeInbound(1).inst.rx_sequence = MaxPeerSeq
    /\ CountEv(out, "tx") = 1
    /\ CountEv(out, "handler") = 0
    /\ instances[1].rx_sequence = MaxPeerSeq

\* C13: a data frame whose sequence is neither rx_sequence nor 1..10 ahead of
\* it is answered with one NAK carrying that sequence, reaches no handler and
\* leaves rx_sequence alone. rx_sequence changes at no operation but a tick
\* that accepts a data frame, and then to the sequence of that frame.
C13_RejectedFrame ==
    /\ \A i \in 1..Len(op.ph) :
         ( /\ DispatchedData(i)
           /\ Ahead(BeforeInbound(i).inst.rx_sequence, Mailbox(i).sequence) \notin 0..10 )
         => /\ AfterInbound(i).inst.rx_sequence = BeforeInbound(i).inst.rx_sequence
            /\ Len(Added(BeforeInbound(i), AfterInbound(i))) = 1
            /\ \E ok \in BOOLEAN :
                 Added(BeforeInbound(i), AfterInbound(i))[1] =
                   TxEvent(BeforeInbound(i).inst.huart, "BLOCK",
                           WireFrame(COMM_CMD_NAK, Fmt02X(Mailbox(i).sequence), 0), ok)
    /\ \A i \in 1..Len(op.pre) :
         instances[i].rx_sequence # op.pre[i].rx_sequence
         => /\ DispatchedData(i)
            /\ Ahead(op.pre[i].rx_sequence, Mailbox(i).sequence) \in 1..10
            /\ ~Echo(i)
            /\ instances[i].rx_sequence = Mailbox(i).sequence

\* a frame behind the baseline
C13_Witness ==
    /\ Len(op.ph) > 0
    /\ DispatchedData(1)
    /\ BeforeInbound(1).inst.rx_sequence = MaxPeerSeq
    /\ Mailbox(1).sequence = 1
    /\ CountEv(out, "tx") = 1
    /\ out[Len(out)].bytes = WireFrame(COMM_CMD_NAK, Fmt02X(1), 0)
    /\ CountEv(out, "handler") = 0
    /\ instances[1].rx_sequence = MaxPeerSeq

\* C14: a frame received completely whose CRC field is not the CRC of its
\* content is not published: nothing is transmitted and no callback runs when
\* it arrives, state, retry_count, rx_sequence and expected_ack_seq are kept,
\* the mailbox stays empty and the inbound path of the next tick does nothing,
\* also when the frame is an ACK or NAK for the pending command.
C14_BadCrcDropped ==
    \A i \in Addressed(op.huart) :
      (op.name = "rxframe" /\ op.data \in BadCrcFrames)
      => /\ out = <<>>
         /\ instances[i].state = op.pre[i].state
         /\ instances[i].retry_count = op.pre[i].retry_count
         /\ instances[i].rx_sequence = op.pre[i].rx_sequence
         /\ instances[i].expected_ack_seq = op.pre[i].expected_ack_seq
         /\ instances[i].new_frame_available = op.pre[i].new_frame_available
         /\ ~op.pre[i].new_frame_available
              => /\ ~instances[i].pending_frame.is_valid
                 /\ instances[i].parse_state = FRAME_STATE_IDLE
                 /\ \A it \in BOOLEAN, blk \in BOOLEAN :
                      \E t \in {TickInstance(instances[i],
                                             [now |-> op.now, it |-> it, blk |-> blk])} :
                         t.fin = t.t1

\* a damaged ACK for the pending command
C14_Witness ==
    /\ op.name = "rxframe"
    /\ op.data = BadCrcFrame(COMM_CMD_ACK, Fmt02X(instances[1].expected_ack_seq), 0)
    /\ op.pre[1].state = COMM_STATE_WAIT_ACK
    /\ ~op.pre[1].new_frame_available
    /\ instances[1].pending_frame.cmd = COMM_CMD_ACK
    /\ instances[1].pending_frame.crc # comm_crc8_calculate(SubSeq(op.data, 2, Len(op.data) - 4))
    /\ instances[1].state = COMM_STATE_WAIT_ACK

(* ---------------- bytes that arrive one at a time ---------------- *)
\* C15: while a parsed frame waits in the mailbox every byte handed to the
\* parser, an opening brace included, is dropped: parse_state, rx_index, the
\* pending frame and the flag stay as they are (only rx_byte, the receive
\* buffer of the UART, holds the new byte). A waiting frame is the one valid
\* frame parsed last, with the parser in IDLE, so nothing of a second frame is
\* queued or left half parsed; the tick that drains it empties the mailbox.
C15_SingleSlotMailbox ==
    /\ \A i \in Addressed(op.huart) :
         (op.name = "rx" /\ op.pre[i].new_frame_available)
         => instances[i] = [op.pre[i] EXCEPT !.rx_byte = op.byte]
    /\ \A i \in 1..Len(instances) :
         instances[i].new_frame_available
         => /\ instances[i].parse_state = FRAME_STATE_IDLE
            /\ instances[i].rx_index = 0
            /\ instances[i].pending_frame.is_valid
    /\ \A i \in 1..Len(op.ph) :
         (op.name = "tick" /\ op.pre[i].new_frame_available)
         => /\ Mailbox(i) = op.pre[i].pending_frame
            /\ ~instances[i].new_frame_available
            /\ instances[i].pending_frame = ZeroFrame
            /\ instances[i].parse_state = FRAME_STATE_IDLE

\* the opening brace of a second frame while the first one waits
C15_Witness ==
    /\ op.name = "rx"
    /\ op.byte = 123
    /\ ghost.peer = 2
    /\ op.pre[1].new_frame_available
    /\ instances[1].new_frame_available
    /\ instances[1].pending_frame.cmd = CmdP
    /\ instances[1].parse_state = FRAME_STATE_IDLE

\* C19: at a tick that finds the parser outside IDLE, the partial frame is
\* discarded (the parser goes back to IDLE) exactly when 100 ms or more have
\* passed since its opening brace was received, wherever the 32-bit clock
\* stands.
C19_FrameAssemblyTimeout ==
    \A i \in 1..Len(op.ph) :
      (op.name = "tick" /\ op.ph[i].t1.inst.parse_state # FRAME_STATE_IDLE)
      => (op.ph[i].t2.inst.parse_state = FRAME_STATE_IDLE)
           = (ghost.time - ghost.chan[i].opened_at >= COMM_FRAME_TIMEOUT_MS)

(* ---------------- sequence numbers of outgoing frames ---------------- *)
\* the last operation was a send that reached the frame builder on channel i
ReachedBuilder(i) ==
    /\ op.name = "send"
    /\ op.pre[i].huart = op.huart
    /\ op.pre[i].state = COMM_STATE_IDLE
    /\ Len(op.cmd) < COMM_MAX_CMD_LENGTH
    /\ Len(op.data) < COMM_MAX_DATA_LENGTH

\* C18: a send that reaches the frame builder moves tx_sequence to the
\* successor of its old value, 255 being followed by 1, and the frame it
\* hands to the transport carries that sequence, which is in 1..255; no other
\* operation changes tx_sequence, so it is 0 only before the first send.
C18_SequenceGeneration ==
    /\ \A i \in 1..Len(op.pre) :
         IF ReachedBuilder(i)
         THEN /\ instances[i].tx_sequence =
                   (IF op.pre[i].tx_sequence = 255 THEN 1 ELSE op.pre[i].tx_sequence + 1)
              /\ instances[i].tx_sequence \in 1..255
              /\ instances[i].current_sequence = instances[i].tx_sequence
              /\ Len(out) >= 1
              /\ out[1].ev = "tx"
              /\ out[1].bytes = WireFrame(op.cmd, op.data, instances[i].tx_sequence)
         ELSE instances[i].tx_sequence = op.pre[i].tx_sequence
    /\ \A i \in 1..Len(instances) :
         instances[i].tx_sequence = 0 => ghost.sends = 0

\* the send after the one that used 255
C18_Witness ==
    /\ ReachedBuilder(1)
    /\ op.pre[1].tx_sequence = 255
    /\ ghost.sends = 2
    /\ op.ret
    /\ instances[1].tx_sequence = 1
    /\ SubSeq(out[1].bytes, 1, 7) = <<123, 80, 58, 35, 48, 49, 35>>

(* ---------------- frames built and parsed back ---------------- *)
Delimiters == {COMM_FRAME_START, COMM_FRAME_END, COMM_CMD_DATA_SEPARATOR, COMM_FIELD_SEPARATOR}

DelimiterFree(s) == \A k \in 1..Len(s) : s[k] \notin Delimiters

\* the parser of the second channel holds a published frame
Published == instances[2].new_frame_available /\ instances[2].pending_frame.is_valid

\* C16: for a command of at most 16 bytes and data of at most 64 bytes, none
\* of them a delimiter, comm_build_frame succeeds with the next sequence
\* number, and its bytes fed one at a time into an idle parser publish one
\* frame, at the last byte and not before, that is valid and has the same
\* command, data and sequence; the parser is back in IDLE.
C16_RoundTrip ==
    ( /\ op.name = "roundtrip"
      /\ Len(op.cmd) <= COMM_MAX_CMD_LENGTH
      /\ Len(op.data) <= COMM_MAX_DATA_LENGTH
      /\ DelimiterFree(op.cmd) /\ DelimiterFree(op.data) )
    => /\ op.ret
       /\ instances[1].tx_buffer =
            WireFrame(op.cmd, op.data, NextSeq(op.pre[1].tx_sequence))
       /\ Published
       /\ instances[2].pending_frame.cmd = op.cmd
       /\ instances[2].pending_frame.data = op.data
       /\ instances[2].pending_frame.sequence = NextSeq(op.pre[1].tx_sequence)
       /\ instances[2].parse_state = FRAME_STATE_IDLE
       /\ \A n \in 1..(Len(instances[1].tx_buffer) - 1) :
            ~RxBurst(IdleParser, SubSeq(instances[1].tx_buffer, 1, n),
                     [now |-> op.now, it |-> TRUE, blk |-> TRUE]).new_frame_available

\* a command of 16 bytes with data of 64 bytes, sent with the sequence after 255
C16_Witness ==
    /\ op.name = "roundtrip"
    /\ Len(op.cmd) = COMM_MAX_CMD_LENGTH
    /\ Len(op.data) = COMM_MAX_DATA_LENGTH
    /\ op.pre[1].tx_sequence = 255
    /\ Published
    /\ instances[2].pending_frame.sequence = 1
    /\ Len(instances[2].pending_frame.data) = COMM_MAX_DATA_LENGTH

\* C17: a built frame with one bit inverted in one byte between its braces is
\* never published as a valid frame by the parser.
C17_TamperDetected ==
    op.name = "tamper" => ~Published

(* ---------------- the callback registry ---------------- *)
\* the slots of inst in use, and those in use for exactly the command cmd
UsedSlots(inst) == {k \in 1..COMM_MAX_CALLBACKS : inst.handlers[k].callback # NULL}
SlotsFor(inst, cmd) == {k \in UsedSlots(inst) : inst.handlers[k].cmd = cmd}

\* C20: the table never holds more than 8 entries and no command twice.
\* Registering a command that is present succeeds, also with a full table,
\* and replaces the handler of its entry only; registering a new command with
\* 8 entries present returns false and changes nothing; with fewer it adds one
\* entry and changes no other; a call without a handler or with a command of
\* 16 bytes or more returns false and changes nothing. A data frame that is accepted reaches the
\* handler registered last for exactly its command, and no other.
C20_CallbackRegistry ==
    /\ \A i \in 1..Len(instances) :
         /\ Cardinality(UsedSlots(instances[i])) <= COMM_MAX_CALLBACKS
         /\ \A j, k \in UsedSlots(instances[i]) :
              instances[i].handlers[j].cmd = instances[i].handlers[k].cmd => j = k
    /\ \A i \in Addressed(op.huart) :
         op.name = "register"
         => IF op.fn = NULL \/ Len(op.cmd) >= COMM_MAX_CMD_LENGTH
            THEN ~op.ret /\ instances = op.pre
            ELSE IF SlotsFor(op.pre[i], op.cmd) # {}
            THEN /\ op.ret
                 /\ \E k \in SlotsFor(op.pre[i], op.cmd) :
                      instances[i] = [op.pre[i] EXCEPT !.handlers[k].callback = op.fn]
            ELSE IF Cardinality(UsedSlots(op.pre[i])) = COMM_MAX_CALLBACKS
            THEN ~op.ret /\ instances = op.pre
            ELSE /\ op.ret
                 /\ \E k \in 1..COMM_MAX_CALLBACKS \ UsedSlots(op.pre[i]) :
                      instances[i] = [op.pre[i] EXCEPT
                                        !.handlers[k] = [cmd |-> op.cmd, callback |-> op.fn]]
    /\ \A i \in 1..Len(op.ph) :
         ( /\ DispatchedData(i)
           /\ Ahead(BeforeInbound(i).inst.rx_sequence, Mailbox(i).sequence) \in 1..10 )
         => LET calls == SelectSeq(Added(BeforeInbound(i), AfterInbound(i)),
                                   LAMBDA e : e.ev = "handler")
            IN  IF Mailbox(i).cmd \in DOMAIN ghost.last
                THEN /\ Len(calls) = 1
                     /\ calls[1].fn = ghost.last[Mailbox(i).cmd]
                     /\ calls[1].cmd = Mailbox(i).cmd
                ELSE calls = <<>>

\* with a full table the handler of "H" was replaced, and a frame for "H"
\* reaches the new handler
C20_Witness ==
    /\ Len(op.ph) > 0
    /\ DispatchedData(1)
    /\ Mailbox(1).cmd = TableCmds[COMM_MAX_CALLBACKS]
    /\ Cardinality(UsedSlots(instances[1])) = COMM_MAX_CALLBACKS
    /\ ghost.regs = 2
    /\ TableCmds[COMM_MAX_CALLBACKS] \in DOMAIN ghost.last
    /\ ghost.last[TableCmds[COMM_MAX_CALLBACKS]] = "h"
    /\ \E k \in 1..Len(out) : out[k].ev = "handler" /\ out[k].fn = "h"
    /\ ~\E k \in 1..Len(out) : out[k].ev = "handler" /\ out[k].fn # "h"

(* ---------------- the instance table ---------------- *)
\* the handle h has a channel in the table t
Known(t, h) == \E i \in 1..Len(t) : t[i].huart = h

\* C21: the table never holds more than 8 channels, no handle twice, and no
\* operation shortens it. comm_add_uart with a handle that has a channel
\* returns true and changes nothing (no slot taken, no state, sequence number
\* or callback reset); with a new handle and 8 channels present it returns
\* false and changes nothing; with a new handle and fewer channels it returns
\* true and appends one channel, the others staying as they were.
C21_ChannelCapacity ==
    /\ Len(instances) <= COMM_MAX_INSTANCES
    /\ Len(instances) >= Len(op.pre)
    /\ \A i, j \in 1..Len(instances) : instances[i].huart = instances[j].huart => i = j
    /\ (op.name = "add_uart" /\ op.huart # NULL)
       => IF Known(op.pre, op.huart)
          THEN op.ret /\ instances = op.pre
          ELSE IF Len(op.pre) = COMM_MAX_INSTANCES
          THEN ~op.ret /\ instances = op.pre
          ELSE /\ op.ret
               /\ Len(instances) = Len(op.pre) + 1
               /\ SubSeq(instances, 1, Len(op.pre)) = op.pre
               /\ instances[Len(instances)].huart = op.huart

\* a ninth handle is refused while the first channel waits for the
\* acknowledgement of its first command and holds a handler registered after
\* start-up
C21_Witness ==
    /\ op.name = "add_uart"
    /\ op.huart = Handles[COMM_MAX_INSTANCES + 1]
    /\ ~op.ret
    /\ Len(instances) = COMM_MAX_INSTANCES
    /\ instances[1].state = COMM_STATE_WAIT_ACK
    /\ instances[1].tx_sequence = 1
    /\ \E k \in 1..COMM_MAX_CALLBACKS : instances[1].handlers[k].callback = "on_Q"

\* the operations of the API that name a handle, apart from comm_add_uart
HandleCalls == {"send", "register", "register_fail", "register_observer",
                "is_ready", "get_retry_count", "rxframe"}

\* C22: a call that names NULL or a handle without a channel changes no
\* field of any channel and not the number of channels, and calls neither the
\* transport nor a callback; comm_send_command and the three registration
\* functions return false, comm_is_ready returns false, comm_get_retry_count
\* returns 0, and a received byte is ignored.
C22_UnknownHandle ==
    (op.name \in HandleCalls /\ ~Known(op.pre, op.huart))
    => /\ instances = op.pre
       /\ out = <<>>
       /\ op.name \in {"send", "register", "register_fail", "register_observer", "is_ready"}
          => op.ret = FALSE
       /\ op.name = "get_retry_count" => op.ret = 0

\* a send that names a handle without a channel is refused although all 8
\* channels are in use and the first is ready
C22_Witness ==
    /\ op.name = "send"
    /\ op.huart = Stranger
    /\ op.ret = FALSE
    /\ Len(instances) = COMM_MAX_INSTANCES
    /\ comm_instance_is_ready(instances[1])
    /\ instances[1].tx_sequence = 1

(* ---------------- the checksum ---------------- *)
\* the bits of a byte string, most significant bit of the first byte first
BitsOf(data) == [k \in 1..(8 * Len(data)) |-> (data[((k - 1) \div 8) + 1] \div (2 ^ (7 - ((k - 1) % 8)))) % 2]

\* the coefficients of x^8 + x^2 + x + 1, highest first
Generator == <<1, 0, 0, 0, 0, 0, 1, 1, 1>>

\* long division over GF(2): the bits from position k on, reduced by the generator
RECURSIVE PolyMod(_, _)
PolyMod(bits, k) ==
    IF k + 8 > Len(bits) THEN bits
    ELSE PolyMod(IF bits[k] = 1
                 THEN [j \in 1..Len(bits) |->
                         IF j \in k..(k + 8) THEN (bits[j] + Generator[j - k + 1]) % 2
                         ELSE bits[j]]
                 ELSE bits,
                 k + 1)

\* the number whose binary digits are bits
RECURSIVE BitsValue(_)
BitsValue(bits) ==
    IF bits = <<>> THEN 0
    ELSE 2 * BitsValue(SubSeq(bits, 1, Len(bits) - 1)) + bits[Len(bits)]

\* CRC-8 with polynomial 0x07, initial value 0, MSB first, not reflected, no
\* final XOR: the remainder of the message times x^8
RefCrc8(data) ==
    BitsValue(SubSeq(PolyMod(BitsOf(data) \o <<0, 0, 0, 0, 0, 0, 0, 0>>, 1),
                     8 * Len(data) + 1, 8 * Len(data) + 8))

\* C23: on every byte string the table-driven and the bit-by-bit branch of
\* comm_crc8_calculate both give the reference CRC-8; the empty string gives
\* 0, the byte 0x41 gives 0xC0, and comm_crc8_verify is true exactly when the
\* checksum equals the expected value.
C23_Crc8 ==
    op.name = "crc8_verify"
    => /\ op.ph[1] = RefCrc8(op.data)
       /\ op.ph[2] = RefCrc8(op.data)
       /\ op.data = <<>> => op.ph[1] = 0
       /\ op.data = <<65>> => op.ph[1] = 192
       /\ op.ret <=> (op.ph[1] = op.byte)

\* a string of three bytes whose checksum is compared with a wrong value
C23_Witness ==
    /\ op.name = "crc8_verify"
    /\ op.data = <<65, 255, 128>>
    /\ op.ph[1] = RefCrc8(op.data)
    /\ op.byte # op.ph[1]
    /\ ~op.ret

(* ---------------- a pending command ---------------- *)
\* the time by which max_retry + 1 send timeouts have run out one after the
\* other, each noticed by the first timer interrupt after it (two periods
\* after the transmission)
ResolvedBy == (ADD_UART_MAX_RETRY + 1) * 2 * TickPeriod

\* C24: a channel in WAIT_ACK whose timer interrupt keeps calling comm_tick
\* returns to IDLE, by the matching ACK or by one failure callback after at
\* most max_retry retransmissions, whatever frames the peer sends meanwhile:
\* no more than one failure callback runs, retry_count stays within max_retry,
\* and once the time of max_retry + 1 timeouts has passed the channel is IDLE.
C24_EverySendResolves ==
    /\ ghost.chan[1].fails <= 1
    /\ instances[1].retry_count <= instances[1].max_retry
    /\ ghost.chan[1].fails = 1 => instances[1].state = COMM_STATE_IDLE
    /\ ghost.time >= ResolvedBy => instances[1].state = COMM_STATE_IDLE

(* ---------------- the end of a frame ---------------- *)
\* C25: the closing brace of a frame that arrives while the mailbox is free
\* publishes the frame whether or not its CRC is right: the frame-available
\* flag is set, is_valid tells whether the CRC computed over the content
\* equals the CRC received, and the parser is back in IDLE.
C25_PublishedRegardless ==
    (op.name = "rxframe" /\ ~op.pre[1].new_frame_available)
    => /\ instances[1].new_frame_available
       /\ instances[1].pending_frame.is_valid <=> (op.data \notin BadCrcFrames)
       /\ instances[1].parse_state = FRAME_STATE_IDLE

(* ---------------- two channels side by side ---------------- *)
MaxPairClock == 1    \* clock advances of one send timeout each

PairHandles == {H1, H2}

\* what the peer of either channel sends: the ACK of the first command, a
\* command, the same command with a wrong CRC, and a frame cut short
PairFrames ==
    [h \in PairHandles |->
       IF h = H1 THEN {FirstAck}
       ELSE {PeerFrame(CmdP, DataP, 1), BadCrcFrame(CmdP, DataP, 1)}]

\* comm_add_uart(&huart2) with its callbacks, then comm_add_uart(&huart3)
\* with none
RECURSIVE Aged(_, _)
Aged(inst, k) ==
    IF k = 0
    THEN SendOnInstance(inst, CmdP, <<>>, [now |-> BootClock, it |-> TRUE, blk |-> TRUE]).inst
    ELSE TickInstance(Aged(inst, k - 1),
                      [now |-> U32(k * ADD_UART_TIMEOUT_MS), it |-> TRUE, blk |-> TRUE]).fin.inst

\* the history of a channel that is in the table from start-up (fresh) or
\* after Aged
PairGhost(inst) ==
    IF inst.state = COMM_STATE_IDLE THEN NoChanGhost
    ELSE [NoChanGhost EXCEPT !.first_frame = SubSeq(inst.tx_buffer, 1, inst.tx_length),
                             !.timeouts = inst.retry_count,
                             !.sent_at = inst.retry_count * ADD_UART_TIMEOUT_MS]

\* comm_add_uart(&huart2) with its callbacks, then comm_add_uart(&huart3)
\* with none; max_retry timeout periods after start-up each channel is
\* either still unused or has sent "P" at start-up and retransmitted it at
\* every timeout since
InitPair ==
    /\ \E fresh \in {comm_add_uart(SetupInstances, H2).insts} :
         instances \in {<<a, b>> : a \in {fresh[1], Aged(fresh[1], ADD_UART_MAX_RETRY)},
                                   b \in {fresh[2], Aged(fresh[2], ADD_UART_MAX_RETRY)}}
    /\ now = U32(ADD_UART_MAX_RETRY * ADD_UART_TIMEOUT_MS)
    /\ wire = [u \in UARTS |-> <<>>]
    /\ out = <<>>
    /\ op = InitOp
    /\ ghost = [chan |-> [i \in 1..2 |-> PairGhost(instances[i])],
                clock |-> 0, peer |-> 0,
                time |-> ADD_UART_MAX_RETRY * ADD_UART_TIMEOUT_MS,
                sends |-> Cardinality({i \in 1..2 : instances[i].state # COMM_STATE_IDLE}),
                regs |-> 0, last |-> <<>>]

NextPair ==
    \/ \E h \in PairHandles : Send(h, CmdP, <<>>, TRUE)
    \/ \E h \in PairHandles : \E f \in PairFrames[h] : RxFrame(h, f)
    \/ \E it \in BOOLEAN : Tick(it, TRUE)
    \/ ghost.clock < MaxPairClock /\ Advance(ADD_UART_TIMEOUT_MS)
    \/ ghost.regs = 0 /\ Register(H1, CmdQ, "on_Q")
    \/ RegisterObserver(H2, "on_state2")

SpecPair == InitPair /\ [][NextPair]_vars

(* ---------------- the state observer ---------------- *)
ObserverCalls(h) == SelectSeq(out, LAMBDA e : e.ev = "observer" /\ e.huart = h)

Quiet(evs) == SelectSeq(evs, LAMBDA e : e.ev # "observer")

Unobserved(insts) ==
    [i \in 1..Len(insts) |-> [insts[i] EXCEPT !.state_change_callback = NULL]]

\* retry_count of channel i at the moment the last operation changed its state
RetryAtChange(i) ==
    IF op.name # "tick" THEN instances[i].retry_count
    ELSE IF op.ph[i].t1.inst.state # op.pre[i].state THEN op.pre[i].retry_count
    ELSE op.ph[i].t2.inst.retry_count

\* the last operation, run on the table before it with every observer removed,
\* ends in the table after it with every observer removed and makes the same
\* calls but those of the observers
SameWithoutObserver ==
    CASE op.name = "send" ->
           \E r \in {comm_send_command(Unobserved(op.pre), op.huart, op.cmd, op.data,
                                       [now |-> op.now, it |-> TRUE, blk |-> op.blk])} :
             /\ r.insts = Unobserved(instances)
             /\ r.out = Quiet(out)
             /\ r.ret = op.ret
      [] op.name = "tick" ->
           \A it \in BOOLEAN :
           \E env \in {[now |-> op.now, it |-> it, blk |-> TRUE]} :
             (\A i \in 1..Len(op.pre) : TickInstance(op.pre[i], env) = op.ph[i])
             => \A i \in 1..Len(op.pre) :
                  \E u \in {TickInstance(Unobserved(op.pre)[i], env).fin} :
                    /\ u.inst = Unobserved(instances)[i]
                    /\ u.out = Quiet(op.ph[i].fin.out)
      [] op.name = "rxframe" ->
           \A i \in 1..Len(op.pre) :
             op.pre[i].huart = op.huart
             => RxBurst(Unobserved(op.pre)[i], op.data,
                        [now |-> op.now, it |-> TRUE, blk |-> TRUE])
                  = Unobserved(instances)[i]
      [] OTHER -> TRUE

\* C26: an operation that changes the state of a channel with a registered
\* observer calls that observer exactly once, with the name of the state
\* before, the name of the state after (a different one) and the retry count
\* the channel holds at that moment; an operation that leaves the state of a
\* channel as it was (a retransmission included) does not call its observer;
\* and with the observers removed every operation has the same effect on
\* every other field and makes the same other calls.
C26_StateObserver ==
    /\ \A i \in 1..Len(op.pre) :
         IF op.pre[i].state # instances[i].state /\ op.pre[i].state_change_callback # NULL
         THEN /\ ObserverCalls(instances[i].huart)
                   = <<[ev |-> "observer", huart |-> instances[i].huart,
                        fn |-> op.pre[i].state_change_callback,
                        from |-> comm_state_to_string(op.pre[i].state),
                        to |-> comm_state_to_string(instances[i].state),
                        retry_count |-> RetryAtChange(i)]>>
              /\ ObserverCalls(instances[i].huart)[1].from
                   # ObserverCalls(instances[i].huart)[1].to
         ELSE ObserverCalls(instances[i].huart) = <<>>
    /\ SameWithoutObserver

\* one tick ends the wait of both channels after the last retry: the observer
\* of the first is told of WAIT_ACK -> IDLE with the retry count at its
\* maximum, the second has no observer
C26_Witness ==
    /\ op.name = "tick"
    /\ op.pre[1].state = COMM_STATE_WAIT_ACK /\ instances[1].state = COMM_STATE_IDLE
    /\ ObserverCalls(H1) # <<>>
    /\ ObserverCalls(H1)[1].retry_count = ADD_UART_MAX_RETRY
    /\ op.pre[2].state = COMM_STATE_WAIT_ACK /\ instances[2].state = COMM_STATE_IDLE
    /\ instances[2].state_change_callback = NULL

(* ---------------- the states in use ---------------- *)
StatesInUse == {COMM_STATE_IDLE, COMM_STATE_WAIT_ACK}

\* C27: the state of every channel is IDLE or WAIT_ACK, never SENDING, RETRY,
\* RECEIVING, PROCESSING or ERROR; comm_get_state_string of a registered
\* handle is "IDLE" or "WAIT_ACK", and these are the only names an observer
\* is given.
C27_TwoStates ==
    /\ \A i \in 1..Len(instances) :
         /\ instances[i].state \in StatesInUse
         /\ comm_get_state_string(instances, instances[i].huart) \in {"IDLE", "WAIT_ACK"}
    /\ \A k \in 1..Len(out) :
         out[k].ev = "observer" => {out[k].from, out[k].to} \subseteq {"IDLE", "WAIT_ACK"}

\* a tick at which one channel retransmits after a timeout and the other
\* handles a received frame
C27_Witness ==
    /\ op.name = "tick"
    /\ \E k \in 1..Len(op.ph[1].fin.out) : op.ph[1].fin.out[k].ev = "tx"
    /\ op.pre[1].retry_count < instances[1].retry_count
    /\ instances[1].state = COMM_STATE_WAIT_ACK
    /\ op.pre[2].new_frame_available
    /\ comm_get_state_string(instances, H2) = "IDLE"

(* ---------------- one channel and the others ---------------- *)
\* the operations made on one handle
OnOneHandle == {"send", "rxframe", "register", "register_observer"}

\* channel i after a tick of a table that holds nothing but channel i
TickedAlone(i, it) ==
    comm_tick(<<op.pre[i]>>, [now |-> op.now, it |-> it, blk |-> TRUE])[1].fin

\* C28: a send, a received frame or a registration on one handle leaves
\* every field of every other channel as it was; and a tick does for every
\* channel what it would do were the channel alone in the table: a send
\* timeout that is due is handled and a frame in the mailbox is passed on and
\* the mailbox freed in that very tick, whatever the state of the others.
C28_ChannelIsolation ==
    /\ op.name \in OnOneHandle
       => \A i \in 1..Len(op.pre) :
            op.pre[i].huart # op.huart => instances[i] = op.pre[i]
    /\ op.name = "tick"
       => \E it \in BOOLEAN :
          \A i \in 1..Len(op.pre) :
            /\ instances[i] = TickedAlone(i, it).inst
            /\ SelectSeq(out, LAMBDA e : e.huart = op.pre[i].huart) = TickedAlone(i, it).out
            /\ ~instances[i].new_frame_available
            /\ comm_is_timeout(op.pre[i], [now |-> op.now, it |-> it, blk |-> TRUE])
               => \/ instances[i].retry_count = op.pre[i].retry_count + 1
                  \/ instances[i].state = COMM_STATE_IDLE

\* a tick at which the first channel waits for an ACK that is not yet late
\* while the second has used up its retries and has a frame in its mailbox
C28_Witness ==
    /\ op.name = "tick"
    /\ op.pre[1].state = COMM_STATE_WAIT_ACK
    /\ instances[1].state = COMM_STATE_WAIT_ACK
    /\ instances[1].retry_count = op.pre[1].retry_count
    /\ op.pre[2].state = COMM_STATE_WAIT_ACK
    /\ op.pre[2].retry_count = ADD_UART_MAX_RETRY
    /\ op.pre[2].new_frame_available
    /\ instances[2].state = COMM_STATE_IDLE
    /\ \E k \in 1..Len(out) : out[k].ev = "tx" /\ out[k].huart = H2

(* ---------------- the mailbox between two ticks ---------------- *)
\* C30: a frame in the mailbox is left as the parser published it by every
\* call made before the next tick: comm_send_command on the same channel
\* changes neither parse_state, rx_index, the pending frame nor the
\* frame-available flag.
C30_MailboxKept ==
    (op.name = "send" /\ op.pre[1].new_frame_available)
    => /\ instances[1].new_frame_available
       /\ instances[1].pending_frame = op.pre[1].pending_frame
       /\ instances[1].parse_state = op.pre[1].parse_state
       /\ instances[1].rx_index = op.pre[1].rx_index

(* ---------------- a sender and a receiver joined by a link ---------------- *)
\* huart2 sends commands, huart3 receives them; the bytes either transmits
\* travel to the other as whole frames, in order, and the link may hold a
\* frame for any time or lose it. wire[h] holds the frames on their way to h.
MaxLink == 2         \* frames the link holds in one direction
MaxLinkClock == 4    \* clock advances of one send timeout each

Peer(h) == IF h = H1 THEN H2 ELSE H1

\* the bytes handed to the transport of h with success, in order
Carry(evs, h) ==
    Bind(SelectSeq(evs, LAMBDA e : e.ev = "tx" /\ e.huart = h /\ e.ok), LAMBDA sel :
      Flatten([k \in 1..Len(sel) |-> sel[k].bytes]))

FramesIn(bytes) == Cardinality({k \in 1..Len(bytes) : bytes[k] = COMM_FRAME_END})

\* the link takes the bytes unless it is full, in which case they are lost
Put(w, bytes) == IF FramesIn(w \o bytes) <= MaxLink THEN w \o bytes ELSE w

FirstFrameEnd(bytes) ==
    CHOOSE k \in 1..Len(bytes) :
      bytes[k] = COMM_FRAME_END /\ \A j \in 1..(k - 1) : bytes[j] # COMM_FRAME_END

\* the data of the handler calls made for h, in order
HandlerData(evs, h) ==
    Bind(SelectSeq(evs, LAMBDA e : e.ev = "handler" /\ e.huart = h), LAMBDA sel :
      [k \in 1..Len(sel) |-> sel[k].data])

\* <<tx_sequence of the sender, rx_sequence of the receiver>> at the start:
\* nothing sent yet; the command with sequence 255 was the last one sent and
\* was accepted; the command with sequence 1 was the last one accepted and
\* those with 2 to 255 were sent since without being accepted; the first 9,
\* and the first 10, commands were sent and all their frames lost
LinkStarts == {<<0, 0>>, <<255, 255>>, <<255, 1>>, <<9, 0>>, <<10, 0>>}

InitLink ==
    /\ \E s \in LinkStarts :
       \E fresh \in {comm_register_command_callback(comm_add_uart(SetupInstances, H2).insts,
                                                   H2, CmdP, "on_P2").insts} :
         instances = <<[fresh[1] EXCEPT !.tx_sequence = s[1], !.current_sequence = s[1],
                                        !.expected_ack_seq = s[1]],
                       [fresh[2] EXCEPT !.rx_sequence = s[2]]>>
    /\ now = BootClock
    /\ wire = [u \in UARTS |-> <<>>]
    /\ out = <<>>
    /\ op = InitOp
    /\ ghost = [chan |-> <<NoChanGhost, NoChanGhost>>,
                clock |-> 0, peer |-> 0, time |-> 0, sends |-> 0,
                regs |-> 0, last |-> <<>>, calls |-> <<>>]

\* the application sends its next command; the data tells the calls apart
LinkSend ==
    /\ ghost.sends < MaxSends
    /\ \E r \in {comm_send_command(instances, H1, CmdP, <<49 + ghost.sends>>,
                                   [now |-> now, it |-> TRUE, blk |-> TRUE])} :
         /\ instances' = r.insts
         /\ out' = r.out
         /\ wire' = [wire EXCEPT ![H2] = Put(@, Carry(r.out, H1))]
         /\ op' = [name |-> "send", huart |-> H1, cmd |-> CmdP, data |-> <<49 + ghost.sends>>,
                   byte |-> 0, blk |-> TRUE, ret |-> r.ret, pre |-> instances, ph |-> <<>>,
                   elapsed |-> <<>>, now |-> now]
         /\ ghost' = [ghost EXCEPT !.sends = @ + 1]
    /\ UNCHANGED now

LinkTick ==
    \E env \in {[now |-> now, it |-> TRUE, blk |-> TRUE]} :
    \E ph \in {comm_tick(instances, env)} :
    \E evs \in {Flatten([i \in 1..Len(instances) |-> ph[i].fin.out])} :
        /\ instances' = [i \in 1..Len(instances) |-> ph[i].fin.inst]
        /\ out' = evs
        /\ wire' = [h \in UARTS |-> Put(wire[h], Carry(evs, Peer(h)))]
        /\ op' = [name |-> "tick", huart |-> NULL, cmd |-> <<>>, data |-> <<>>, byte |-> 0,
                  blk |-> TRUE, ret |-> TRUE, pre |-> instances, ph |-> ph,
                  elapsed |-> <<>>, now |-> now]
        /\ ghost' = [ghost EXCEPT !.calls = @ \o HandlerData(evs, H2)]
        /\ UNCHANGED now

\* the first frame on its way to h arrives, byte by byte
Deliver(h) ==
    /\ wire[h] # <<>>
    /\ \E n \in {FirstFrameEnd(wire[h])} :
       \E i \in {comm_find_instance(instances, h)} :
         /\ instances' = [instances EXCEPT ![i] =
                            RxBurst(@, SubSeq(wire[h], 1, n),
                                    [now |-> now, it |-> TRUE, blk |-> TRUE])]
         /\ wire' = [wire EXCEPT ![h] = SubSeq(@, n + 1, Len(@))]
         /\ op' = [name |-> "rxframe", huart |-> h, cmd |-> <<>>,
                   data |-> SubSeq(wire[h], 1, n), byte |-> 0, blk |-> TRUE, ret |-> TRUE,
                   pre |-> instances, ph |-> <<>>, elapsed |-> <<>>, now |-> now]
    /\ out' = <<>>
    /\ UNCHANGED <<now, ghost>>

\* the first frame on its way to h is lost
Drop(h) ==
    /\ wire[h] # <<>>
    /\ wire' = [wire EXCEPT ![h] = SubSeq(@, FirstFrameEnd(@) + 1, Len(@))]
    /\ out' = <<>>
    /\ op' = InitOp
    /\ UNCHANGED <<instances, now, ghost>>

NextLink ==
    \/ LinkSend
    \/ LinkTick
    \/ \E h \in PairHandles : Deliver(h)
    \/ \E h \in PairHandles : Drop(h)
    \/ ghost.clock < MaxLinkClock /\ Advance(ADD_UART_TIMEOUT_MS)

SpecLink == InitLink /\ [][NextLink]_vars

(* ---------------- delivery from end to end ---------------- *)
\* calls of the receiver's handler made so far with the data d
CallsFor(d) == Cardinality({k \in 1..Len(ghost.calls) : ghost.calls[k] = d})

\* the last operation was a tick at which the sender left WAIT_ACK for IDLE
\* in the inbound path, that is by the ACK it was waiting for
AckedNow ==
    /\ op.name = "tick"
    /\ op.ph[1].t2.inst.state = COMM_STATE_WAIT_ACK
    /\ op.ph[1].t3.inst.state = COMM_STATE_IDLE

\* C29: over a link that may hold back or lose whole frames, the receiver's
\* handler is called at most once for every comm_send_command of the sender,
\* however often the frame is retransmitted, and when the sender returns to
\* IDLE by the matching ACK the handler has been called exactly once for the
\* command just acknowledged.
C29_EndToEnd ==
    /\ \A k \in 1..Len(ghost.calls) : CallsFor(ghost.calls[k]) <= 1
    /\ AckedNow => CallsFor(instances[1].current_data) = 1

(* ---------------- inbound frames and the pending send ---------------- *)
SendSide(inst) ==
    <<inst.state, inst.retry_count, inst.expected_ack_seq, inst.current_sequence,
      inst.tx_sequence, inst.last_send_time>>

\* C31: a data frame handled while the channel waits for an ACK, whether it
\* is accepted, a duplicate or rejected (the anti-loopback case aside),
\* leaves state, retry_count, expected_ack_seq, current_sequence, tx_sequence
\* and last_send_time as they were.
C31_InboundLeavesSendSide ==
    \A i \in 1..Len(op.ph) :
      (/\ DispatchedData(i)
       /\ BeforeInbound(i).inst.state = COMM_STATE_WAIT_ACK
       /\ Mailbox(i).sequence # BeforeInbound(i).inst.expected_ack_seq)
      => SendSide(AfterInbound(i).inst) = SendSide(BeforeInbound(i).inst)

(* ---------------- fields that are too long ---------------- *)
\* the bytes of a frame with the fields as given, the CRC being that of the
\* content the parser rebuilds when all fields fit
RawFrame(cmd, data, seqchars, crcchars) ==
    <<COMM_FRAME_START>> \o cmd \o <<COMM_CMD_DATA_SEPARATOR>> \o data
      \o <<COMM_FIELD_SEPARATOR>> \o seqchars \o <<COMM_FIELD_SEPARATOR>> \o crcchars
      \o <<COMM_FRAME_END>>

\* frames with fields at their limits, one past them, and bytes outside a frame
ParseFrames ==
    {PeerFrame(Rep(80, COMM_MAX_CMD_LENGTH), Rep(49, COMM_MAX_DATA_LENGTH), 1),
     RawFrame(Rep(80, COMM_MAX_CMD_LENGTH + 1), <<>>, <<48, 49>>, <<48, 48>>),
     RawFrame(CmdP, Rep(49, COMM_MAX_DATA_LENGTH + 1), <<48, 49>>, <<48, 48>>),
     RawFrame(CmdP, <<>>, <<48, 48, 49>>, <<48, 48>>),
     RawFrame(CmdP, <<>>, <<48, 49>>, <<48, 53, 70>>),
     <<80, COMM_FRAME_END, COMM_FIELD_SEPARATOR>> \o PeerFrame(CmdP, <<>>, 1)}

NextParse ==
    \/ \E f \in ParseFrames : PeerSend(H1, f)
    \/ DoRxByte
    \/ DoTick

SpecParse == Init /\ [][NextParse]_vars

\* the byte handed to the parser of channel i found the field full
Overflows(i) ==
    /\ op.name = "rx"
    /\ ~op.pre[i].new_frame_available
    /\ \/ /\ op.pre[i].parse_state = FRAME_STATE_CMD
          /\ op.pre[i].rx_index = COMM_MAX_CMD_LENGTH
          /\ op.byte # COMM_CMD_DATA_SEPARATOR
       \/ /\ op.pre[i].parse_state = FRAME_STATE_DATA
          /\ op.pre[i].rx_index = COMM_MAX_DATA_LENGTH
          /\ op.byte # COMM_FIELD_SEPARATOR
       \/ /\ op.pre[i].parse_state = FRAME_STATE_SEQ
          /\ op.pre[i].rx_index = 2
          /\ op.byte # COMM_FIELD_SEPARATOR
       \/ /\ op.pre[i].parse_state = FRAME_STATE_CRC
          /\ op.pre[i].rx_index = 2
          /\ op.byte # COMM_FRAME_END

\* C32: parse_state is IDLE, CMD, DATA, SEQ or CRC; rx_index is at most 16
\* in CMD, 64 in DATA and 2 in SEQ and CRC, and the command and data held
\* fit their arrays of 17 and 65 bytes with the closing zero; a byte that
\* finds its field full and is not the field's terminator takes the parser
\* to IDLE, publishes nothing and transmits nothing; in IDLE a byte other
\* than the opening brace leaves the parser in IDLE and the frame and the
\* flag as they are.
C32_ParserBounds ==
    \A i \in 1..Len(instances) :
      /\ instances[i].parse_state \in {FRAME_STATE_IDLE, FRAME_STATE_CMD, FRAME_STATE_DATA,
                                       FRAME_STATE_SEQ, FRAME_STATE_CRC}
      /\ instances[i].parse_state = FRAME_STATE_CMD
         => instances[i].rx_index <= COMM_MAX_CMD_LENGTH
      /\ instances[i].parse_state = FRAME_STATE_DATA
         => instances[i].rx_index <= COMM_MAX_DATA_LENGTH
      /\ instances[i].parse_state \in {FRAME_STATE_SEQ, FRAME_STATE_CRC}
         => instances[i].rx_index <= 2
      /\ Len(instances[i].pending_frame.cmd) <= COMM_MAX_CMD_LENGTH
      /\ Len(instances[i].pending_frame.data) <= COMM_MAX_DATA_LENGTH
      /\ Overflows(i)
         => /\ instances[i].parse_state = FRAME_STATE_IDLE
            /\ ~instances[i].new_frame_available
            /\ out = <<>>
      /\ (/\ op.name = "rx"
          /\ ~op.pre[i].new_frame_available
          /\ op.pre[i].parse_state = FRAME_STATE_IDLE
          /\ op.byte # COMM_FRAME_START)
         => /\ instances[i].parse_state = FRAME_STATE_IDLE
            /\ instances[i].pending_frame = op.pre[i].pending_frame
            /\ ~instances[i].new_frame_available

\* the 17th byte of a command has just been refused
C32_Witness ==
    /\ Overflows(1)
    /\ op.pre[1].parse_state = FRAME_STATE_CMD
    /\ Len(op.pre[1].pending_frame.cmd) = COMM_MAX_CMD_LENGTH
    /\ instances[1].parse_state = FRAME_STATE_IDLE

(* ---------------- commands without a handler ---------------- *)
\* the last operation was a tick that accepted on channel i a data frame
\* whose command has no handler
AcceptedUnhandled(i) ==
    /\ DispatchedData(i)
    /\ Ahead(BeforeInbound(i).inst.rx_sequence, Mailbox(i).sequence) \in 1..10
    /\ ~Echo(i)
    /\ HandlersFor(BeforeInbound(i).inst, Mailbox(i).cmd) = {}

\* C33: an accepted valid data frame whose command has no handler is
\* answered like any accepted frame: comm_call_callback returns false and
\* calls nothing, one ACK with the frame's sequence is transmitted and
\* rx_sequence becomes that sequence, nothing else changes; the same frame
\* handled once more is a duplicate (one ACK, no call, no change).
C33_UnregisteredCommand ==
    \A i \in 1..Len(op.ph) :
      AcceptedUnhandled(i)
      => /\ ~comm_call_callback(BeforeInbound(i), Mailbox(i).cmd, Mailbox(i).data).ret
         /\ AfterInbound(i).inst =
               [BeforeInbound(i).inst EXCEPT !.rx_sequence = Mailbox(i).sequence]
         /\ IsAckThenHandlers(Added(BeforeInbound(i), AfterInbound(i)), i, {})
         /\ \E again \in {comm_handle_complete_frame(
                            AfterInbound(i), Mailbox(i),
                            [now |-> op.now, it |-> TRUE, blk |-> TRUE])} :
              /\ again.inst = AfterInbound(i).inst
              /\ IsAckThenHandlers(Added(AfterInbound(i), again), i, {})

\* the frame {Q:12#02#..} was accepted while a handler exists for "P" only
C33_Witness ==
    /\ Len(op.ph) > 0
    /\ AcceptedUnhandled(1)
    /\ Mailbox(1).cmd = CmdQ
    /\ instances[1].rx_sequence = MaxPeerSeq
    /\ Len(out) = 1
    /\ out[1].ev = "tx" /\ out[1].ok

(* ---------------- the byte callback interrupting the tick ---------------- *)
\* comm_tick on one channel, one step at a time; the byte callback may run
\* between any two steps. ghost.pc is the step to come and ghost.ft the value
\* comm_is_frame_timeout returned to the tick.
TickSteps == <<"timeout", "frame_timeout_check", "frame_timeout_reset", "frame",
               "flag_clear", "buffer_clear">>

\* [inst, out, pc, ft] after the step pc
TickPhase(inst, pc, ft, env) ==
    CASE pc = "timeout" ->
           Bind(IF comm_is_timeout(inst, env)
                THEN comm_handle_timeout([inst |-> inst, out |-> <<>>], env)
                ELSE [inst |-> inst, out |-> <<>>], LAMBDA c :
             [inst |-> c.inst, out |-> c.out, pc |-> "frame_timeout_check", ft |-> FALSE])
      [] pc = "frame_timeout_check" ->
           [inst |-> inst, out |-> <<>>, pc |-> "frame_timeout_reset",
            ft |-> comm_is_frame_timeout(inst, env)]
      [] pc = "frame_timeout_reset" ->
           [inst |-> IF ft THEN comm_handle_frame_timeout(inst) ELSE inst,
            out |-> <<>>, pc |-> "frame", ft |-> FALSE]
      [] pc = "frame" ->
           IF inst.new_frame_available
           THEN Bind(comm_handle_complete_frame([inst |-> inst, out |-> <<>>],
                                                inst.pending_frame, env), LAMBDA c :
                  [inst |-> c.inst, out |-> c.out, pc |-> "flag_clear", ft |-> FALSE])
           ELSE [inst |-> inst, out |-> <<>>, pc |-> "timeout", ft |-> FALSE]
      [] pc = "flag_clear" ->
           [inst |-> [inst EXCEPT !.new_frame_available = FALSE],
            out |-> <<>>, pc |-> "buffer_clear", ft |-> FALSE]
      [] OTHER ->
           [inst |-> [inst EXCEPT !.pending_frame = ZeroFrame],
            out |-> <<>>, pc |-> "timeout", ft |-> FALSE]

InitIsr ==
    /\ instances = SetupInstances
    /\ now = BootClock
    /\ wire = [u \in UARTS |-> <<>>]
    /\ out = <<>>
    /\ op = InitOp
    /\ ghost = [chan |-> <<NoChanGhost>>, clock |-> 0, peer |-> 0, time |-> 0, sends |-> 0,
                regs |-> 0, last |-> <<>>, pc |-> TickSteps[1], ft |-> FALSE]

TickStep ==
    \E r \in {TickPhase(instances[1], ghost.pc, ghost.ft,
                        [now |-> now, it |-> TRUE, blk |-> TRUE])} :
        /\ instances' = <<r.inst>>
        /\ out' = r.out
        /\ op' = [name |-> ghost.pc, huart |-> NULL, cmd |-> <<>>, data |-> <<>>, byte |-> 0,
                  blk |-> TRUE, ret |-> TRUE, pre |-> instances, ph |-> <<>>,
                  elapsed |-> <<>>, now |-> now]
        /\ ghost' = [ghost EXCEPT !.pc = r.pc, !.ft = r.ft]
        /\ UNCHANGED <<now, wire>>

NextIsr ==
    \/ TickStep
    \/ RxByte(H1, "NONE")
    \/ DoPeerSend
    \/ DoWait

SpecIsr == InitIsr /\ [][NextIsr]_vars

\* C34: with the byte callback running between the steps of the tick, a
\* frame the parser has published is not taken back by the frame-timeout
\* reset, reaches the inbound path as the parser stored it and is then
\* cleared; and the clearing of the buffer erases no byte of a frame that is
\* being assembled.
C34_Handoff ==
    /\ (op.name = "frame_timeout_reset" /\ op.pre[1].new_frame_available)
       => /\ instances[1].new_frame_available
          /\ instances[1].pending_frame = op.pre[1].pending_frame
    /\ (op.name = "buffer_clear" /\ op.pre[1].parse_state # FRAME_STATE_IDLE)
       => instances[1].pending_frame = op.pre[1].pending_frame
    /\ (op.name = "flag_clear") => op.pre[1].new_frame_available

(* ---------------- an ACK and a timeout at the same tick ---------------- *)
\* channel i waits for an ACK and that ACK, valid, is in its mailbox
AckWaiting(inst) ==
    /\ inst.state = COMM_STATE_WAIT_ACK
    /\ inst.new_frame_available
    /\ inst.pending_frame.is_valid
    /\ CStr(inst.pending_frame.cmd) = COMM_CMD_ACK
    /\ CStr(inst.pending_frame.data) = Fmt02X(inst.expected_ack_seq)

\* C36: a tick that finds the awaited ACK in the mailbox ends the send by
\* that ACK: the channel is IDLE after it, nothing was retransmitted and the
\* failure callback was not called, also when the send timeout has elapsed.
C36_AckBeforeTimeout ==
    \A i \in 1..Len(op.ph) :
      (op.name = "tick" /\ AckWaiting(op.pre[i]))
      => /\ instances[i].state = COMM_STATE_IDLE
         /\ CountEv(op.ph[i].fin.out, "tx") = 0
         /\ CountEv(op.ph[i].fin.out, "fail") = 0

(* ---------------- what holds between operations ---------------- *)
\* C37: after every operation each channel has retry_count <= max_retry; in
\* IDLE retry_count is 0; in WAIT_ACK expected_ack_seq, current_sequence and
\* tx_sequence are one and the same value other than 0, and the first
\* tx_length bytes of tx_buffer are the frame of current_cmd and current_data
\* with that sequence.
C37_ChannelInvariant ==
    \A i \in 1..Len(instances) :
      /\ instances[i].retry_count <= instances[i].max_retry
      /\ instances[i].state = COMM_STATE_IDLE => instances[i].retry_count = 0
      /\ instances[i].state = COMM_STATE_WAIT_ACK
         => /\ instances[i].expected_ack_seq = instances[i].current_sequence
            /\ instances[i].current_sequence = instances[i].tx_sequence
            /\ instances[i].tx_sequence # 0
            /\ SubSeq(instances[i].tx_buffer, 1, instances[i].tx_length)
                 = PeerFrame(CStr(instances[i].current_cmd), CStr(instances[i].current_data),
                             instances[i].current_sequence)

\* the second command waits for its ACK after the last retransmission, which
\* the transport refused
C37_Witness ==
    /\ op.name = "tick"
    /\ instances[1].state = COMM_STATE_WAIT_ACK
    /\ instances[1].retry_count = instances[1].max_retry
    /\ op.pre[1].retry_count < instances[1].retry_count
    /\ instances[1].tx_sequence = 2
    /\ \E k \in 1..Len(out) : out[k].ev = "tx" /\ ~out[k].ok

(* ---------------- after a burst of losses ---------------- *)
\* the last operation was a tick at which the receiver handled a valid frame
\* of the command the sender sent last
HandledCurrent ==
    /\ DispatchedData(2)
    /\ Mailbox(2).sequence = instances[1].current_sequence
    /\ Mailbox(2).data = CStr(instances[1].current_data)

IsNak(e) == e.ev = "tx" /\ SubSeq(e.bytes, 2, 4) = COMM_CMD_NAK

\* C38: however many commands of the sender failed before it, a command
\* whose frame reaches the receiver is accepted: the receiver answers with an
\* ACK, not with a NAK, and its handler has been called for the command.
C38_RecoveryAfterBurst ==
    HandledCurrent
    => /\ \A k \in 1..Len(op.ph[2].fin.out) : ~IsNak(op.ph[2].fin.out[k])
       /\ CallsFor(Mailbox(2).data) = 1

(* ---------------- two channels that both send ---------------- *)
\* huart2 and huart3 are joined back to back by a link that loses nothing and
\* is prompt: the clock stands still while a frame is on its way or waits in
\* a mailbox. Each side sends one command. ghost.sent holds the handles that
\* have sent, ghost.got those a frame has arrived at, ghost.both tells that
\* the second to send did so before a frame of the first had arrived at it,
\* ghost.calls and ghost.fails list the handler and failure callbacks made.
InitSym ==
    /\ \E fresh \in {comm_register_command_callback(comm_add_uart(SetupInstances, H2).insts,
                                                   H2, CmdP, "on_P2").insts} :
         instances = <<fresh[1], comm_set_fail_callback(fresh[2], "on_fail2")>>
    /\ now = BootClock
    /\ wire = [u \in UARTS |-> <<>>]
    /\ out = <<>>
    /\ op = InitOp
    /\ ghost = [chan |-> <<NoChanGhost, NoChanGhost>>,
                clock |-> 0, peer |-> 0, time |-> 0, sends |-> 0,
                regs |-> 0, last |-> <<>>, calls |-> <<>>, fails |-> <<>>,
                sent |-> {}, got |-> {}, both |-> FALSE]

\* the data of the one command h sends
SymData(h) == IF h = H1 THEN <<49>> ELSE <<50>>

SymSend(h) ==
    /\ h \notin ghost.sent
    /\ \E r \in {comm_send_command(instances, h, CmdP, SymData(h),
                                   [now |-> now, it |-> TRUE, blk |-> TRUE])} :
         /\ instances' = r.insts
         /\ out' = r.out
         /\ wire' = [wire EXCEPT ![Peer(h)] = @ \o Carry(r.out, h)]
         /\ op' = [name |-> "send", huart |-> h, cmd |-> CmdP, data |-> SymData(h),
                   byte |-> 0, blk |-> TRUE, ret |-> r.ret, pre |-> instances, ph |-> <<>>,
                   elapsed |-> <<>>, now |-> now]
         /\ ghost' = [ghost EXCEPT !.sent = @ \cup {h},
                                   !.sends = @ + 1,
                                   !.both = Peer(h) \in ghost.sent /\ h \notin ghost.got]
    /\ UNCHANGED now

\* the huart of every call of the given kind among the events, in order
CallsOf(evs, kind) ==
    Bind(SelectSeq(evs, LAMBDA e : e.ev = kind), LAMBDA sel :
      [k \in 1..Len(sel) |-> sel[k].huart])

SymTick ==
    \E env \in {[now |-> now, it |-> TRUE, blk |-> TRUE]} :
    \E ph \in {comm_tick(instances, env)} :
    \E evs \in {Flatten([i \in 1..Len(instances) |-> ph[i].fin.out])} :
        /\ instances' = [i \in 1..Len(instances) |-> ph[i].fin.inst]
        /\ out' = evs
        /\ wire' = [h \in UARTS |-> wire[h] \o Carry(evs, Peer(h))]
        /\ op' = [name |-> "tick", huart |-> NULL, cmd |-> <<>>, data |-> <<>>, byte |-> 0,
                  blk |-> TRUE, ret |-> TRUE, pre |-> instances, ph |-> ph,
                  elapsed |-> <<>>, now |-> now]
        /\ ghost' = [ghost EXCEPT !.calls = @ \o CallsOf(evs, "handler"),
                                  !.fails = @ \o CallsOf(evs, "fail")]
        /\ UNCHANGED now

\* the first frame on its way to h arrives, byte by byte
SymDeliver(h) ==
    /\ wire[h] # <<>>
    /\ \E n \in {FirstFrameEnd(wire[h])} :
       \E i \in {comm_find_instance(instances, h)} :
         /\ instances' = [instances EXCEPT ![i] =
                            RxBurst(@, SubSeq(wire[h], 1, n),
                                    [now |-> now, it |-> TRUE, blk |-> TRUE])]
         /\ wire' = [wire EXCEPT ![h] = SubSeq(@, n + 1, Len(@))]
         /\ op' = [name |-> "rxframe", huart |-> h, cmd |-> <<>>,
                   data |-> SubSeq(wire[h], 1, n), byte |-> 0, blk |-> TRUE, ret |-> TRUE,
                   pre |-> instances, ph |-> <<>>, elapsed |-> <<>>, now |-> now]
    /\ ghost' = [ghost EXCEPT !.got = @ \cup {h}]
    /\ out' = <<>>
    /\ UNCHANGED now

\* nothing is on its way and no mailbox is full
LinkIdle ==
    /\ \A h \in PairHandles : wire[h] = <<>>
    /\ \A i \in 1..Len(instances) : ~instances[i].new_frame_available

NextSym ==
    \/ \E h \in PairHandles : SymSend(h)
    \/ SymTick
    \/ \E h \in PairHandles : SymDeliver(h)
    \/ LinkIdle /\ ghost.clock < MaxLinkClock /\ Advance(ADD_UART_TIMEOUT_MS)

SpecSym == InitSym /\ [][NextSym]_vars

\* C35: when both channels have sent before a frame of the other arrived,
\* neither failure callback is called and neither handler is called more
\* than once, and a channel that has left WAIT_ACK has done so at a tick by
\* the matching ACK, its peer's handler having been called.
C35_SymmetricTraffic ==
    ghost.both
    => /\ ghost.fails = <<>>
       /\ \A h \in PairHandles :
            Cardinality({k \in 1..Len(ghost.calls) : ghost.calls[k] = h}) <= 1
       /\ \A i \in 1..Len(instances) :
            (op.name = "tick" /\ op.pre[i].state = COMM_STATE_WAIT_ACK
                              /\ instances[i].state = COMM_STATE_IDLE)
            => /\ op.ph[i].t2.inst.state = COMM_STATE_WAIT_ACK
               /\ \E k \in 1..Len(ghost.calls) : ghost.calls[k] = Peer(instances[i].huart)

(* ================= Key: the key detection library ================= *)
key_low == 0
key_high == 1
Release_ == "Release_"
KEY_IDLE == "KEY_IDLE"
KEY_DEBOUNCE == "KEY_DEBOUNCE"
KEY_PRESSED == "KEY_PRESSED"
KEY_LONG_TRIGGERED == "KEY_LONG_TRIGGERED"
LONG_PRESS_TIME == 800
KEY_DEBOUNCE_TIME == 30

\* an entry of keys[] that points to no key
NullKey == [null |-> TRUE]
\* the key number given with a call that belongs to no key
NoKeyNumber == 0 - 1

\* the structure RegKey fills in; keys[key_id] points to it
RegKey(GpioPort, GpioPin, key_id, level, ShortPressF, LongPressF) ==
    [Key_GpioPort |-> GpioPort, Key_GpioPin |-> GpioPin, Key_Number |-> key_id,
     level |-> level, LongPressF |-> LongPressF, ShortPressF |-> ShortPressF,
     Key_State |-> Release_, internal_state |-> KEY_IDLE, press_time |-> 0]

\* pin is what HAL_GPIO_ReadPin returns for the pin of the key
Key_ReadPin(key, pin) == IF pin = key.level THEN 1 ELSE 0

KeyCall(key, fn) == IF fn # NULL THEN <<[ev |-> "key", key |-> key.Key_Number, fn |-> fn]>>
                    ELSE <<>>

\* Key_StateMachine that stays in KEY_PRESSED once the long press was reported
long_press_stays_pressed(key, pin) ==
    Bind(Key_ReadPin(key, pin), LAMBDA key_pressed :
      CASE key.internal_state = KEY_IDLE ->
             IF key_pressed = 1
             THEN [key |-> [key EXCEPT !.internal_state = KEY_DEBOUNCE, !.press_time = 0],
                   out |-> <<>>]
             ELSE [key |-> key, out |-> <<>>]
        [] key.internal_state = KEY_DEBOUNCE ->
             IF key_pressed = 1
             THEN IF key.press_time + 1 >= KEY_DEBOUNCE_TIME
                  THEN [key |-> [key EXCEPT !.internal_state = KEY_PRESSED, !.press_time = 0],
                        out |-> <<>>]
                  ELSE [key |-> [key EXCEPT !.press_time = @ + 1], out |-> <<>>]
             ELSE [key |-> [key EXCEPT !.internal_state = KEY_IDLE, !.press_time = 0],
                   out |-> <<>>]
        [] key.internal_state = KEY_PRESSED ->
             IF key_pressed = 1
             THEN IF key.press_time + 1 >= LONG_PRESS_TIME
                  THEN [key |-> [key EXCEPT !.press_time = @ + 1],
                        out |-> KeyCall(key, key.LongPressF)]
                  ELSE [key |-> [key EXCEPT !.press_time = @ + 1], out |-> <<>>]
             ELSE [key |-> [key EXCEPT !.internal_state = KEY_IDLE, !.press_time = 0],
                   out |-> KeyCall(key, key.ShortPressF)]
        [] key.internal_state = KEY_LONG_TRIGGERED ->
             IF key_pressed = 0
             THEN [key |-> [key EXCEPT !.internal_state = KEY_IDLE, !.press_time = 0],
                   out |-> <<>>]
             ELSE [key |-> key, out |-> <<>>]
        [] OTHER ->
             [key |-> [key EXCEPT !.internal_state = KEY_IDLE, !.press_time = 0],
              out |-> <<>>])

\* one run of the state machine of a key: the structure after it and the
\* callbacks made
Key_StateMachine(key, pin) ==
    Bind(Key_ReadPin(key, pin), LAMBDA key_pressed :
      CASE key.internal_state = KEY_IDLE ->
             IF key_pressed = 1
             THEN [key |-> [key EXCEPT !.internal_state = KEY_DEBOUNCE, !.press_time = 0],
                   out |-> <<>>]
             ELSE [key |-> key, out |-> <<>>]
        [] key.internal_state = KEY_DEBOUNCE ->
             IF key_pressed = 1
             THEN IF key.press_time + 1 >= KEY_DEBOUNCE_TIME
                  THEN [key |-> [key EXCEPT !.internal_state = KEY_PRESSED, !.press_time = 0],
                        out |-> <<>>]
                  ELSE [key |-> [key EXCEPT !.press_time = @ + 1], out |-> <<>>]
             ELSE [key |-> [key EXCEPT !.internal_state = KEY_IDLE, !.press_time = 0],
                   out |-> <<>>]
        [] key.internal_state = KEY_PRESSED ->
             IF key_pressed = 1
             THEN IF key.press_time + 1 >= LONG_PRESS_TIME
                  THEN [key |-> [key EXCEPT !.internal_state = KEY_LONG_TRIGGERED,
                                            !.press_time = @ + 1],
                        out |-> KeyCall(key, key.LongPressF)]
                  ELSE [key |-> [key EXCEPT !.press_time = @ + 1], out |-> <<>>]
             ELSE [key |-> [key EXCEPT !.internal_state = KEY_IDLE, !.press_time = 0],
                   out |-> KeyCall(key, key.ShortPressF)]
        [] key.internal_state = KEY_LONG_TRIGGERED ->
             IF key_pressed = 0
             THEN [key |-> [key EXCEPT !.internal_state = KEY_IDLE, !.press_time = 0],
                   out |-> <<>>]
             ELSE [key |-> key, out |-> <<>>]
        [] OTHER ->
             [key |-> [key EXCEPT !.internal_state = KEY_IDLE, !.press_time = 0],
              out |-> <<>>])

\* Key_Loop over keys[0 .. registered_key_count - 1] (keys[i] is keys[i + 1]
\* here), pins[i] being what the pin of key i reads; then the user callback
Key_Loop(keys, pins, user_callback) ==
    Bind([i \in 1..Len(keys) |->
            IF keys[i] = NullKey THEN [key |-> NullKey, out |-> <<>>]
            ELSE Key_StateMachine(keys[i], pins[i])], LAMBDA r :
      [keys |-> [i \in 1..Len(keys) |-> r[i].key],
       out |-> Flatten([i \in 1..Len(keys) |-> r[i].out])
               \o (IF user_callback # NULL
                   THEN <<[ev |-> "key", key |-> NoKeyNumber, fn |-> user_callback]>>
                   ELSE <<>>)])

(* ---------------- one key under a scan loop ---------------- *)
MaxHold == 833       \* scans in a row that read the key as pressed

\* the press in progress, or the last one: the scans in a row that read the
\* key as pressed, the short-press and long-press callbacks made for it, and
\* whether the last scan read the key as pressed
NoPress == [run |-> 0, short |-> 0, long |-> 0, down |-> FALSE]

KeyCallbacks == {<<"key1_short_press", "key1_long_press">>, <<NULL, NULL>>}

\* Key_Init and one RegKey: the key has id 0 or 1 (keys[0] is then NULL),
\* either active level, and callbacks or none; the pin starts released
InitKey ==
    /\ \E key_id \in {0, 1}, level \in {key_low, key_high}, cb \in KeyCallbacks :
         /\ instances = [i \in 1..(key_id + 1) |->
                           IF i = key_id + 1
                           THEN RegKey("GPIOA", 1, key_id, level, cb[1], cb[2])
                           ELSE NullKey]
         /\ ghost = [press |-> [i \in 1..(key_id + 1) |-> NoPress],
                     user_callback |-> IF key_id = 0 THEN "global_callback" ELSE NULL]
    /\ now = BootClock
    /\ wire = [u \in UARTS |-> <<>>]
    /\ out = <<>>
    /\ op = InitOp

CountFn(evs, fn) == Cardinality({k \in 1..Len(evs) : evs[k].fn = fn /\ fn # NULL})

\* the record of the press after a scan that read pressed (1 or 0) and made
\* the calls evs
PressAfter(p, key, pressed, evs) ==
    IF pressed = 1 /\ ~p.down
    THEN [run |-> 1, short |-> CountFn(evs, key.ShortPressF),
          long |-> CountFn(evs, key.LongPressF), down |-> TRUE]
    ELSE [run |-> p.run + pressed, short |-> p.short + CountFn(evs, key.ShortPressF),
          long |-> p.long + CountFn(evs, key.LongPressF), down |-> pressed = 1]

\* one pass of the main loop: Key_Loop with the pins as they read now
KeyScan(pins) ==
    /\ \A i \in 1..Len(instances) :
         instances[i] # NullKey /\ Key_ReadPin(instances[i], pins[i]) = 1
         => ghost.press[i].run < MaxHold \/ ~ghost.press[i].down
    /\ \E r \in {Key_Loop(instances, pins, ghost.user_callback)} :
         /\ instances' = r.keys
         /\ out' = r.out
         /\ op' = [InitOp EXCEPT !.name = "Key_Loop", !.data = pins, !.pre = instances]
         /\ ghost' = [ghost EXCEPT !.press = [i \in 1..Len(instances) |->
                        IF instances[i] = NullKey THEN NoPress
                        ELSE PressAfter(ghost.press[i], instances[i],
                                        Key_ReadPin(instances[i], pins[i]),
                                        SelectSeq(r.out, LAMBDA e : e.key = instances[i].Key_Number))]]
    /\ UNCHANGED <<now, wire>>

NextKey == \E pin \in {0, 1} : KeyScan([i \in 1..Len(instances) |-> pin])

SpecKey == InitKey /\ [][NextKey]_vars

\* pressed scans of the press after the one that ended the debounce
Further(p) == p.run - (KEY_DEBOUNCE_TIME + 1)

Fires(fn) == IF fn # NULL THEN 1 ELSE 0

====
